---- MODULE Spec2Model ----
(***************************************************************************)
(* Model of mikenye/gotrees: the sentinel-based binary search tree         *)
(* (package bst) and the red-black tree built on it (package rbtree).      *)
(*                                                                         *)
(* A node is a number: 0 is the tree's sentinel (t.nil), 1..MaxNodes are   *)
(* the addresses of the nodes allocated by Insert, and -1 is Go's nil      *)
(* pointer.  A tree is a record of the root pointer and of one function    *)
(* per node field.  The slot of the nil pointer is never written; reading  *)
(* it stands for a nil dereference, which the operators report as a panic. *)
(***************************************************************************)
EXTENDS Integers, Sequences, FiniteSets, TLC

\* ---------------------------------------------------------------- bounds
MaxKey == 6
AscMaxKey == 10
BstMaxKey == 4
ValMaxKey == 3
MaxVal == 2
MaxMarked == 1
MaxNodes == AscMaxKey + 1

Sentinel == 0
NilPtr == 0 - 1
Red == FALSE
Black == TRUE

Nodes == 0..MaxNodes
Ptrs == NilPtr..MaxNodes
Keys == 1..AscMaxKey
RbKeys == 1..MaxKey
BstKeys == 1..BstMaxKey
ValKeys == 1..ValMaxKey
Pairs(K, V) == {<<k, v>> : k \in K, v \in V}
Values == 1..MaxVal
Fuel == MaxNodes + 2

\* ------------------------------------------------------------- package bst

\* New without the assignment t.root.parent = t.nil.
NewParentUnset(zeroMeta) ==
  [root |-> Sentinel,
   key |-> [n \in Ptrs |-> 0],
   value |-> [n \in Ptrs |-> 0],
   parent |-> [n \in Ptrs |-> NilPtr],
   left |-> [n \in Ptrs |-> NilPtr],
   right |-> [n \in Ptrs |-> NilPtr],
   metadata |-> [n \in Ptrs |-> zeroMeta]]

\* func New: an empty tree; the sentinel is a zero Node whose parent is itself.
New(zeroMeta) ==
  [root |-> Sentinel,
   key |-> [n \in Ptrs |-> 0],
   value |-> [n \in Ptrs |-> 0],
   parent |-> [n \in Ptrs |-> IF n = Sentinel THEN Sentinel ELSE NilPtr],
   left |-> [n \in Ptrs |-> NilPtr],
   right |-> [n \in Ptrs |-> NilPtr],
   metadata |-> [n \in Ptrs |-> zeroMeta]]

\* The comparison with its arguments exchanged.
greater(a, b) == b < a

\* A comparison that also holds for equal keys.
lessOrEqual(a, b) == a <= b

less(a, b) == a < b

keyEq(a, b) == ~less(a, b) /\ ~less(b, a)

IsNil(n) == n = Sentinel

IsLeaf(t, n) == t.left[n] = Sentinel /\ t.right[n] = Sentinel

IsUnary(t, n) == (t.left[n] = Sentinel) # (t.right[n] = Sentinel)

\* transplant setting the parent of the replacement even when it is the sentinel.
transplantAnyParent(t, toReplace, replacement) ==
  LET p == t.parent[toReplace]
      t1 == IF p = Sentinel THEN [t EXCEPT !.root = replacement]
            ELSE IF toReplace = t.left[p] THEN [t EXCEPT !.left[p] = replacement]
            ELSE [t EXCEPT !.right[p] = replacement]
  IN  [t1 EXCEPT !.parent[replacement] = p]

\* transplant replaces node toReplace with node replacement.
transplant(t, toReplace, replacement) ==
  LET p == t.parent[toReplace]
      t1 == IF p = Sentinel THEN [t EXCEPT !.root = replacement]
            ELSE IF toReplace = t.left[p] THEN [t EXCEPT !.left[p] = replacement]
            ELSE [t EXCEPT !.right[p] = replacement]
  IN  IF replacement # Sentinel THEN [t1 EXCEPT !.parent[replacement] = p] ELSE t1

RECURSIVE MinF(_, _, _)
MinF(t, n, d) ==
  IF d > 0 /\ t.left[n] # NilPtr /\ t.left[n] # Sentinel THEN MinF(t, t.left[n], d - 1) ELSE n

Min(t, n) == MinF(t, n, Fuel)

RECURSIVE MaxF(_, _, _)
MaxF(t, n, d) ==
  IF d > 0 /\ t.right[n] # NilPtr /\ t.right[n] # Sentinel THEN MaxF(t, t.right[n], d - 1) ELSE n

\* Max descending a single step.
MaxOneStep(t, n) ==
  IF t.right[n] # NilPtr /\ t.right[n] # Sentinel THEN t.right[n] ELSE n

Max(t, n) == MaxF(t, n, Fuel)

RECURSIVE SuccClimb(_, _, _, _)
SuccClimb(t, n, p, d) ==
  IF d > 0 /\ p # Sentinel /\ n # t.left[p] THEN SuccClimb(t, p, t.parent[p], d - 1) ELSE p

\* Successor taking the right child itself instead of the minimum below it.
SuccessorRightChild(t, n) ==
  IF t.right[n] # Sentinel THEN t.right[n] ELSE SuccClimb(t, n, t.parent[n], Fuel)

Successor(t, n) ==
  IF t.right[n] # Sentinel THEN Min(t, t.right[n]) ELSE SuccClimb(t, n, t.parent[n], Fuel)

RECURSIVE PredClimb(_, _, _, _)
PredClimb(t, n, p, d) ==
  IF d > 0 /\ p # Sentinel /\ n # t.right[p] THEN PredClimb(t, p, t.parent[p], d - 1) ELSE p

\* Predecessor taking the left child itself instead of the maximum below it.
PredecessorLeftChild(t, n) ==
  IF t.left[n] # Sentinel THEN t.left[n] ELSE PredClimb(t, n, t.parent[n], Fuel)

Predecessor(t, n) ==
  IF t.left[n] # Sentinel THEN Max(t, t.left[n]) ELSE PredClimb(t, n, t.parent[n], Fuel)

SetMetadata(t, n, m) ==
  IF n # NilPtr /\ ~IsNil(n) THEN [t EXCEPT !.metadata[n] = m] ELSE t

MustSetMetadata(t, n, m) == [t EXCEPT !.metadata[n] = m]

\* Search: walk from the root; (node, TRUE) on a match, (sentinel, FALSE) otherwise.
RECURSIVE SearchF(_, _, _, _)
SearchF(t, key, currNode, d) ==
  IF currNode = Sentinel \/ d = 0 THEN [node |-> Sentinel, found |-> FALSE]
  ELSE IF keyEq(t.key[currNode], key) THEN [node |-> currNode, found |-> TRUE]
  ELSE IF less(key, t.key[currNode]) THEN SearchF(t, key, t.left[currNode], d - 1)
  ELSE SearchF(t, key, t.right[currNode], d - 1)

Search(t, key) == SearchF(t, key, t.root, Fuel)

\* The walk of Insert: parent is the trailing pointer, hit the node holding key.
\* The descent of Insert with the arguments of less exchanged.
RECURSIVE InsertWalkSwapped(_, _, _, _, _)
InsertWalkSwapped(t, key, parent, currNode, d) ==
  IF IsNil(currNode) \/ d = 0 THEN [parent |-> parent, hit |-> Sentinel]
  ELSE IF keyEq(t.key[currNode], key) THEN [parent |-> currNode, hit |-> currNode]
  ELSE IF less(t.key[currNode], key) THEN InsertWalkSwapped(t, key, currNode, t.left[currNode], d - 1)
  ELSE InsertWalkSwapped(t, key, currNode, t.right[currNode], d - 1)

RECURSIVE InsertWalk(_, _, _, _, _)
InsertWalk(t, key, parent, currNode, d) ==
  IF IsNil(currNode) \/ d = 0 THEN [parent |-> parent, hit |-> Sentinel]
  ELSE IF keyEq(t.key[currNode], key) THEN [parent |-> currNode, hit |-> currNode]
  ELSE IF less(key, t.key[currNode]) THEN InsertWalk(t, key, currNode, t.left[currNode], d - 1)
  ELSE InsertWalk(t, key, currNode, t.right[currNode], d - 1)

\* Insert(key, value); id is the address of the node a new key allocates.
\* The boolean is the second result exactly as the code returns it: TRUE when
\* the key existed and its value was updated, FALSE when a node was created.
Insert(t, id, key, value) ==
  LET w == InsertWalk(t, key, Sentinel, t.root, Fuel)
      parent == w.parent
      t1 == [t EXCEPT !.key[id] = key, !.value[id] = value, !.parent[id] = parent,
                      !.left[id] = Sentinel, !.right[id] = Sentinel]
  IN  IF w.hit # Sentinel
      THEN [t |-> [t EXCEPT !.value[w.hit] = value], node |-> w.hit, flag |-> TRUE]
      ELSE [t |-> IF parent = Sentinel THEN [t1 EXCEPT !.root = id]
                  ELSE IF less(key, t.key[parent]) THEN [t1 EXCEPT !.left[parent] = id]
                  ELSE [t1 EXCEPT !.right[parent] = id],
            node |-> id, flag |-> FALSE]

\* DeleteNode without the assignment successor.left = n.left.
DeleteNodeDropsLeft(t, n) ==
  IF t.left[n] = Sentinel
  THEN LET replacement == t.right[n]
           t1 == transplant(t, n, t.right[n])
       IN  [t |-> IF replacement # Sentinel THEN SetMetadata(t1, replacement, t.metadata[n]) ELSE t1,
            node |-> replacement, flag |-> TRUE]
  ELSE IF t.right[n] = Sentinel
  THEN LET replacement == t.left[n]
           t1 == transplant(t, n, t.left[n])
       IN  [t |-> IF replacement # Sentinel THEN SetMetadata(t1, replacement, t.metadata[n]) ELSE t1,
            node |-> replacement, flag |-> TRUE]
  ELSE LET successor == Min(t, t.right[n])
           t1 == IF t.parent[successor] # n
                 THEN LET a == transplant(t, successor, t.right[successor])
                          b == [a EXCEPT !.right[successor] = a.right[n]]
                      IN  [b EXCEPT !.parent[b.right[successor]] = successor]
                 ELSE t
           t2 == transplant(t1, n, successor)
           t4 == [t2 EXCEPT !.parent[t2.left[n]] = successor]
       IN  [t |-> IF successor # Sentinel THEN SetMetadata(t4, successor, t.metadata[n]) ELSE t4,
            node |-> successor, flag |-> TRUE]

\* Delete(n) whose successor case leaves the successor's own metadata.
DeleteNodeKeepsMetadata(t, n) ==
  IF t.left[n] = Sentinel
  THEN LET replacement == t.right[n]
           t1 == transplant(t, n, t.right[n])
       IN  [t |-> IF replacement # Sentinel THEN SetMetadata(t1, replacement, t.metadata[n]) ELSE t1,
            node |-> replacement, flag |-> TRUE]
  ELSE IF t.right[n] = Sentinel
  THEN LET replacement == t.left[n]
           t1 == transplant(t, n, t.left[n])
       IN  [t |-> IF replacement # Sentinel THEN SetMetadata(t1, replacement, t.metadata[n]) ELSE t1,
            node |-> replacement, flag |-> TRUE]
  ELSE LET successor == Min(t, t.right[n])
           t1 == IF t.parent[successor] # n
                 THEN LET a == transplant(t, successor, t.right[successor])
                          b == [a EXCEPT !.right[successor] = a.right[n]]
                      IN  [b EXCEPT !.parent[b.right[successor]] = successor]
                 ELSE t
           t2 == transplant(t1, n, successor)
           t3 == [t2 EXCEPT !.left[successor] = t2.left[n]]
           t4 == [t3 EXCEPT !.parent[t3.left[successor]] = successor]
       IN  [t |-> t4, node |-> successor, flag |-> TRUE]

\* Delete(n) for n neither nil nor the sentinel: the three cases.
DeleteNode(t, n) ==
  IF t.left[n] = Sentinel
  THEN LET replacement == t.right[n]
           t1 == transplant(t, n, t.right[n])
       IN  [t |-> IF replacement # Sentinel THEN SetMetadata(t1, replacement, t.metadata[n]) ELSE t1,
            node |-> replacement, flag |-> TRUE]
  ELSE IF t.right[n] = Sentinel
  THEN LET replacement == t.left[n]
           t1 == transplant(t, n, t.left[n])
       IN  [t |-> IF replacement # Sentinel THEN SetMetadata(t1, replacement, t.metadata[n]) ELSE t1,
            node |-> replacement, flag |-> TRUE]
  ELSE LET successor == Min(t, t.right[n])
           t1 == IF t.parent[successor] # n
                 THEN LET a == transplant(t, successor, t.right[successor])
                          b == [a EXCEPT !.right[successor] = a.right[n]]
                      IN  [b EXCEPT !.parent[b.right[successor]] = successor]
                 ELSE t
           t2 == transplant(t1, n, successor)
           t3 == [t2 EXCEPT !.left[successor] = t2.left[n]]
           t4 == [t3 EXCEPT !.parent[t3.left[successor]] = successor]
       IN  [t |-> IF successor # Sentinel THEN SetMetadata(t4, successor, t.metadata[n]) ELSE t4,
            node |-> successor, flag |-> TRUE]

\* Delete guarding against nil only, not against the sentinel.
DeleteNilOnly(t, n) ==
  IF n = NilPtr THEN [t |-> t, node |-> Sentinel, flag |-> FALSE]
  ELSE DeleteNode(t, n)

\* Delete(n): (replacement, deleted); nothing is deleted for nil or the sentinel.
Delete(t, n) ==
  IF IsNil(n) \/ n = NilPtr THEN [t |-> t, node |-> Sentinel, flag |-> FALSE]
  ELSE DeleteNode(t, n)

\* RotateLeft that returns early for nil and the sentinel only.
RotateLeftAnyChild(t, node) ==
  IF node = NilPtr \/ node = Sentinel THEN t
  ELSE LET rightSubtree == t.right[node]
           t1 == [t EXCEPT !.right[node] = t.left[rightSubtree]]
           t2 == IF t1.left[rightSubtree] # Sentinel
                 THEN [t1 EXCEPT !.parent[t1.left[rightSubtree]] = node] ELSE t1
           t3 == [t2 EXCEPT !.parent[rightSubtree] = t2.parent[node]]
           p == t3.parent[node]
           t4 == IF p = Sentinel THEN [t3 EXCEPT !.root = rightSubtree]
                 ELSE IF t3.left[p] = node THEN [t3 EXCEPT !.left[p] = rightSubtree]
                 ELSE [t3 EXCEPT !.right[p] = rightSubtree]
       IN  [t4 EXCEPT !.left[rightSubtree] = node, !.parent[node] = rightSubtree]

\* RotateLeft that leaves the parent of the subtree it moves.
RotateLeftLeavesInner(t, node) ==
  IF node = NilPtr \/ node = Sentinel \/ t.right[node] = Sentinel THEN t
  ELSE LET rightSubtree == t.right[node]
           t1 == [t EXCEPT !.right[node] = t.left[rightSubtree]]
           t3 == [t1 EXCEPT !.parent[rightSubtree] = t1.parent[node]]
           p == t3.parent[node]
           t4 == IF p = Sentinel THEN [t3 EXCEPT !.root = rightSubtree]
                 ELSE IF t3.left[p] = node THEN [t3 EXCEPT !.left[p] = rightSubtree]
                 ELSE [t3 EXCEPT !.right[p] = rightSubtree]
       IN  [t4 EXCEPT !.left[rightSubtree] = node, !.parent[node] = rightSubtree]

\* RotateLeft(node)
RotateLeft(t, node) ==
  IF node = NilPtr \/ node = Sentinel \/ t.right[node] = Sentinel THEN t
  ELSE LET rightSubtree == t.right[node]
           t1 == [t EXCEPT !.right[node] = t.left[rightSubtree]]
           t2 == IF t1.left[rightSubtree] # Sentinel
                 THEN [t1 EXCEPT !.parent[t1.left[rightSubtree]] = node] ELSE t1
           t3 == [t2 EXCEPT !.parent[rightSubtree] = t2.parent[node]]
           p == t3.parent[node]
           t4 == IF p = Sentinel THEN [t3 EXCEPT !.root = rightSubtree]
                 ELSE IF t3.left[p] = node THEN [t3 EXCEPT !.left[p] = rightSubtree]
                 ELSE [t3 EXCEPT !.right[p] = rightSubtree]
       IN  [t4 EXCEPT !.left[rightSubtree] = node, !.parent[node] = rightSubtree]

\* RotateRight that leaves the parent of the subtree it moves.
RotateRightLeavesInner(t, node) ==
  IF node = NilPtr \/ node = Sentinel \/ t.left[node] = Sentinel THEN t
  ELSE LET leftSubtree == t.left[node]
           t1 == [t EXCEPT !.left[node] = t.right[leftSubtree]]
           t3 == [t1 EXCEPT !.parent[leftSubtree] = t1.parent[node]]
           p == t3.parent[node]
           t4 == IF p = Sentinel THEN [t3 EXCEPT !.root = leftSubtree]
                 ELSE IF t3.left[p] = node THEN [t3 EXCEPT !.left[p] = leftSubtree]
                 ELSE [t3 EXCEPT !.right[p] = leftSubtree]
       IN  [t4 EXCEPT !.right[leftSubtree] = node, !.parent[node] = leftSubtree]

\* RotateRight that sets the parent of the subtree it moves also when that
\* subtree is the sentinel.
RotateRightAnyInner(t, node) ==
  IF node = NilPtr \/ node = Sentinel \/ t.left[node] = Sentinel THEN t
  ELSE LET leftSubtree == t.left[node]
           t1 == [t EXCEPT !.left[node] = t.right[leftSubtree]]
           t2 == [t1 EXCEPT !.parent[t1.right[leftSubtree]] = node]
           t3 == [t2 EXCEPT !.parent[leftSubtree] = t2.parent[node]]
           p == t3.parent[node]
           t4 == IF p = Sentinel THEN [t3 EXCEPT !.root = leftSubtree]
                 ELSE IF t3.left[p] = node THEN [t3 EXCEPT !.left[p] = leftSubtree]
                 ELSE [t3 EXCEPT !.right[p] = leftSubtree]
       IN  [t4 EXCEPT !.right[leftSubtree] = node, !.parent[node] = leftSubtree]

\* RotateRight(node)
RotateRight(t, node) ==
  IF node = NilPtr \/ node = Sentinel \/ t.left[node] = Sentinel THEN t
  ELSE LET leftSubtree == t.left[node]
           t1 == [t EXCEPT !.left[node] = t.right[leftSubtree]]
           t2 == IF t1.right[leftSubtree] # Sentinel
                 THEN [t1 EXCEPT !.parent[t1.right[leftSubtree]] = node] ELSE t1
           t3 == [t2 EXCEPT !.parent[leftSubtree] = t2.parent[node]]
           p == t3.parent[node]
           t4 == IF p = Sentinel THEN [t3 EXCEPT !.root = leftSubtree]
                 ELSE IF t3.left[p] = node THEN [t3 EXCEPT !.left[p] = leftSubtree]
                 ELSE [t3 EXCEPT !.right[p] = leftSubtree]
       IN  [t4 EXCEPT !.right[leftSubtree] = node, !.parent[node] = leftSubtree]

\* TraverseInOrder(n, f) with f always returning true: the nodes passed to f,
\* in order.  The recursion of the code is cut after Fuel levels (a cyclic
\* structure would exhaust the goroutine stack).
RECURSIVE InOrderF(_, _, _)
InOrderF(t, n, d) ==
  IF d = 0 THEN <<n>>
  ELSE (IF t.left[n] # NilPtr /\ t.left[n] # Sentinel THEN InOrderF(t, t.left[n], d - 1) ELSE <<>>)
       \o <<n>>
       \o (IF t.right[n] # NilPtr /\ t.right[n] # Sentinel THEN InOrderF(t, t.right[n], d - 1) ELSE <<>>)

InOrder(t, n) == InOrderF(t, n, Fuel)

\* TraverseInOrder(n, f), f returning true exactly for the nodes in accept:
\* seq is the nodes passed to f so far, ok the value returned.  The recursion
\* of the code is cut after Fuel levels.
NoVisit == [seq |-> <<>>, ok |-> TRUE]

\* The right subtree has been traversed with result rr.
TraverseRight(l, n, rr) == [seq |-> l.seq \o <<n>> \o rr.seq, ok |-> rr.ok]

RECURSIVE TraverseF(_, _, _, _)

\* TraverseInOrder going on into the right subtree although f rejected a
\* node of the left subtree.
TraverseNodeIgnoresLeft(t, n, accept, d, l) ==
  IF n \notin accept THEN [seq |-> Append(l.seq, n), ok |-> FALSE]
  ELSE TraverseRight(l, n,
                     IF t.right[n] # NilPtr /\ t.right[n] # Sentinel
                     THEN TraverseF(t, t.right[n], accept, d - 1) ELSE NoVisit)

\* The left subtree has been traversed with result l: return false if it
\* returned false, else process n and traverse the right subtree.
TraverseNode(t, n, accept, d, l) ==
  IF ~l.ok THEN l
  ELSE IF n \notin accept THEN [seq |-> Append(l.seq, n), ok |-> FALSE]
  ELSE TraverseRight(l, n,
                     IF t.right[n] # NilPtr /\ t.right[n] # Sentinel
                     THEN TraverseF(t, t.right[n], accept, d - 1) ELSE NoVisit)

TraverseF(t, n, accept, d) ==
  IF d = 0 THEN [seq |-> <<n>>, ok |-> FALSE]
  ELSE TraverseNode(t, n, accept, d,
                    IF t.left[n] # NilPtr /\ t.left[n] # Sentinel
                    THEN TraverseF(t, t.left[n], accept, d - 1) ELSE NoVisit)

\* The nodes TraverseInOrder(n, f) passes to f, in order.
Visited(t, n, accept) == TraverseF(t, n, accept, Fuel).seq

\* The result of TraverseInOrder(n, f).
TraverseInOrder(t, n, accept) == TraverseF(t, n, accept, Fuel).ok

\* IsTreeValid without the parent/child check of the traversal.
BstIsTreeValidKeysOnly(t) ==
  IF t.parent[Sentinel] # Sentinel THEN [err |-> "sentinel parent", key |-> 0]
  ELSE IF t.parent[t.root] # Sentinel THEN [err |-> "root parent", key |-> 0]
  ELSE LET s == InOrder(t, t.root)
           bad == {i \in 2..Len(s) : ~less(t.key[s[i - 1]], t.key[s[i]])}
       IN  IF bad = {} THEN [err |-> "", key |-> 0]
           ELSE [err |-> "out of order keys",
                 key |-> t.key[s[CHOOSE i \in bad : \A j \in bad : i <= j]]]

\* bst IsTreeValid: the error it returns, "" for nil.
BstIsTreeValid(t) ==
  IF t.parent[Sentinel] # Sentinel THEN [err |-> "sentinel parent", key |-> 0]
  ELSE IF t.parent[t.root] # Sentinel THEN [err |-> "root parent", key |-> 0]
  ELSE LET s == InOrder(t, t.root)
           outOfOrder(i) == i > 1 /\ ~less(t.key[s[i - 1]], t.key[s[i]])
           mismatch(i) ==
             LET node == s[i]
                 parentNil == t.parent[node] = Sentinel
                 leftChild == node = t.left[t.parent[node]] /\ node # t.right[t.parent[node]]
                 rightChild == node # t.left[t.parent[node]] /\ node = t.right[t.parent[node]]
             IN  ~parentNil /\ ~(leftChild \/ rightChild)
           bad == {i \in 1..Len(s) : outOfOrder(i) \/ mismatch(i)}
       IN  IF bad = {} THEN [err |-> "", key |-> 0]
           ELSE LET i == CHOOSE i \in bad : \A j \in bad : i <= j
                IN  IF outOfOrder(i) THEN [err |-> "out of order keys", key |-> t.key[s[i]]]
                    ELSE [err |-> "parent/child mismatch", key |-> t.key[s[i]]]

\* ---------------------------------------------------------- package rbtree
\* The bst.Tree embedded by rbtree.Tree exposes raw setters and the sentinel;
\* rbtree.go calls them as plain field assignments.
SetParent(t, n, p) == [t EXCEPT !.parent[n] = p]

SetLeft(t, n, c) == [t EXCEPT !.left[n] = c]

SetRight(t, n, c) == [t EXCEPT !.right[n] = c]

SetRoot(t, n) == [t EXCEPT !.root = n]

SetKey(t, n, k) == [t EXCEPT !.key[n] = k]

SetValue(t, n, v) == [t EXCEPT !.value[n] = v]

\* t.Tree.Insert as rbtree.Insert consumes it: the walk and the attachment of
\* Insert, the boolean reporting that a new node was inserted.
TreeInsert(t, id, key, value) == [Insert(t, id, key, value) EXCEPT !.flag = ~@]

isBlack(t, n) == IsNil(n) \/ t.metadata[n] # Red

\* isRed seeing no red node.
isRedNever(t, n) == FALSE

isRed(t, n) == ~IsNil(n) /\ t.metadata[n] = Red

setColor(t, n, c) == IF ~IsNil(n) THEN SetMetadata(t, n, c) ELSE t

\* rbtree.New without the coloring of the sentinel.
RBNewZeroColor == New(Red)

\* rbtree.New: bst.New, then the sentinel is colored black.
RBNew == MustSetMetadata(New(Red), Sentinel, Black)

\* One iteration of the loop of deleteFixup, x a left child.  s is the state
\* of the loop: the tree, x, the rotations and iterations so far, the cases
\* taken, and whether a nil pointer was dereferenced; w is x's sibling.

\* The loop state after w was read as the sibling of x (deleteFixup) or as the
\* grandparent of z (insertFixup): seen collects the nodes read so.
Saw(s, w) == [s EXCEPT !.seen = @ \cup {w}]

\* Case 4 leaving x where it is.
DeleteCase4KeepsX(s) == s

\* x = t.Root() after case 4.
DeleteCase4Done(s) == [s EXCEPT !.x = s.t.root]

\* Case 4: w takes the color of x's parent, the parent and w's right child
\* turn black, the parent is rotated left.
DeleteLeftCase4(s, w) ==
  IF w = NilPtr THEN [s EXCEPT !.panic = TRUE]
  ELSE DeleteCase4Done(
         [s EXCEPT !.t = RotateLeft(setColor(setColor(setColor(s.t, w, s.t.metadata[s.t.parent[s.x]]),
                                                      s.t.parent[s.x], Black),
                                             s.t.right[w], Black),
                                    s.t.parent[s.x]),
                   !.rot = @ + 1, !.iter = @ + 1, !.cases = @ \cup {4}])

\* w = t.Right(t.Parent(x)) after case 3.  The loop state s0 is evaluated
\* once and named s.
DeleteLeftCase3Done(s0) ==
  [s \in {s0} |-> DeleteLeftCase4(Saw(s, s.t.right[s.t.parent[s.x]]), s.t.right[s.t.parent[s.x]])][s0]

\* Case 2 (both children of w black), or case 3 (w's right child black)
\* followed by case 4.
DeleteLeftCase2(s, w) ==
  IF w = NilPtr \/ s.t.left[w] = NilPtr \/ (isBlack(s.t, s.t.left[w]) /\ s.t.right[w] = NilPtr)
  THEN [s EXCEPT !.panic = TRUE]
  ELSE IF isBlack(s.t, s.t.left[w]) /\ isBlack(s.t, s.t.right[w])
  THEN [s EXCEPT !.t = setColor(s.t, w, Red), !.x = s.t.parent[s.x],
                 !.iter = @ + 1, !.cases = @ \cup {2}]
  ELSE IF s.t.right[w] = NilPtr THEN [s EXCEPT !.panic = TRUE]
  ELSE IF isBlack(s.t, s.t.right[w])
  THEN DeleteLeftCase3Done(
         [s EXCEPT !.t = RotateRight(setColor(setColor(s.t, s.t.left[w], Black), w, Red), w),
                   !.rot = @ + 1, !.cases = @ \cup {3}])
  ELSE DeleteLeftCase4(s, w)

\* w = t.Right(t.Parent(x)) after case 1.  The loop state s0 is evaluated
\* once and named s.
DeleteLeftCase1Done(s0) ==
  [s \in {s0} |-> DeleteLeftCase2(Saw(s, s.t.right[s.t.parent[s.x]]), s.t.right[s.t.parent[s.x]])][s0]

\* Case 1 (w red): w turns black, x's parent red and is rotated left.
DeleteLeftCase1(s, w) ==
  IF w = NilPtr THEN [s EXCEPT !.panic = TRUE]
  ELSE IF isRed(s.t, w)
  THEN DeleteLeftCase1Done(
         [s EXCEPT !.t = RotateLeft(setColor(setColor(s.t, w, Black), s.t.parent[s.x], Red),
                                    s.t.parent[s.x]),
                   !.rot = @ + 1, !.cases = @ \cup {1}])
  ELSE DeleteLeftCase2(s, w)

DeleteFixupLeft(s) ==
  DeleteLeftCase1(Saw(s, s.t.right[s.t.parent[s.x]]), s.t.right[s.t.parent[s.x]])

\* The same iteration with right and left exchanged, x a right child.

\* Case 4: w takes the color of x's parent, the parent and w's left child
\* turn black, the parent is rotated right.
DeleteRightCase4(s, w) ==
  IF w = NilPtr THEN [s EXCEPT !.panic = TRUE]
  ELSE DeleteCase4Done(
         [s EXCEPT !.t = RotateRight(setColor(setColor(setColor(s.t, w, s.t.metadata[s.t.parent[s.x]]),
                                                      s.t.parent[s.x], Black),
                                             s.t.left[w], Black),
                                    s.t.parent[s.x]),
                   !.rot = @ + 1, !.iter = @ + 1, !.cases = @ \cup {4}])

\* w = t.Left(t.Parent(x)) after case 3.  The loop state s0 is evaluated
\* once and named s.
DeleteRightCase3Done(s0) ==
  [s \in {s0} |-> DeleteRightCase4(Saw(s, s.t.left[s.t.parent[s.x]]), s.t.left[s.t.parent[s.x]])][s0]

\* Case 2 (both children of w black), or case 3 (w's left child black)
\* followed by case 4.
DeleteRightCase2(s, w) ==
  IF w = NilPtr \/ s.t.right[w] = NilPtr \/ (isBlack(s.t, s.t.right[w]) /\ s.t.left[w] = NilPtr)
  THEN [s EXCEPT !.panic = TRUE]
  ELSE IF isBlack(s.t, s.t.right[w]) /\ isBlack(s.t, s.t.left[w])
  THEN [s EXCEPT !.t = setColor(s.t, w, Red), !.x = s.t.parent[s.x],
                 !.iter = @ + 1, !.cases = @ \cup {2}]
  ELSE IF s.t.left[w] = NilPtr THEN [s EXCEPT !.panic = TRUE]
  ELSE IF isBlack(s.t, s.t.left[w])
  THEN DeleteRightCase3Done(
         [s EXCEPT !.t = RotateLeft(setColor(setColor(s.t, s.t.right[w], Black), w, Red), w),
                   !.rot = @ + 1, !.cases = @ \cup {3}])
  ELSE DeleteRightCase4(s, w)

\* w = t.Left(t.Parent(x)) after case 1.  The loop state s0 is evaluated
\* once and named s.
DeleteRightCase1Done(s0) ==
  [s \in {s0} |-> DeleteRightCase2(Saw(s, s.t.left[s.t.parent[s.x]]), s.t.left[s.t.parent[s.x]])][s0]

\* Case 1 (w red): w turns black, x's parent red and is rotated right.
DeleteRightCase1(s, w) ==
  IF w = NilPtr THEN [s EXCEPT !.panic = TRUE]
  ELSE IF isRed(s.t, w)
  THEN DeleteRightCase1Done(
         [s EXCEPT !.t = RotateRight(setColor(setColor(s.t, w, Black), s.t.parent[s.x], Red),
                                    s.t.parent[s.x]),
                   !.rot = @ + 1, !.cases = @ \cup {1}])
  ELSE DeleteRightCase2(s, w)

DeleteFixupRight(s) ==
  DeleteRightCase1(Saw(s, s.t.left[s.t.parent[s.x]]), s.t.left[s.t.parent[s.x]])

\* The loop of deleteFixup; it is cut (cut = TRUE) after LoopFuel iterations.
LoopFuel == 2 * MaxNodes + 2

\* The color of the sentinel as the fixup leaves it after a step: nilBlack
\* stays TRUE while every step so far left the sentinel black.
SeeSentinel(s) == [s EXCEPT !.nilBlack = @ /\ s.t.metadata[Sentinel] = Black]

RECURSIVE DeleteFixupLoop(_)
DeleteFixupLoop(s) ==
  IF s.panic \/ s.cut THEN s
  ELSE IF s.x # s.t.root /\ isBlack(s.t, s.x)
  THEN IF s.iter >= LoopFuel THEN [s EXCEPT !.cut = TRUE]
       ELSE IF s.x = s.t.left[s.t.parent[s.x]] THEN DeleteFixupLoop(SeeSentinel(DeleteFixupLeft(s)))
       ELSE DeleteFixupLoop(SeeSentinel(DeleteFixupRight(s)))
  ELSE s

\* The end of deleteFixup: x is colored black.
DeleteFixupEnd(s) ==
  IF s.panic \/ s.cut THEN s ELSE SeeSentinel([s EXCEPT !.t = setColor(s.t, s.x, Black)])

\* deleteFixup without the final coloring of x.
deleteFixupNoBlacken(t, x) ==
  DeleteFixupLoop([t |-> t, x |-> x, rot |-> 0, iter |-> 0, cases |-> {},
                   panic |-> FALSE, cut |-> FALSE, nilBlack |-> TRUE, seen |-> {}])

\* deleteFixup without its loop: only x is colored black.
deleteFixupNoLoop(t, x) ==
  DeleteFixupEnd([t |-> t, x |-> x, rot |-> 0, iter |-> 0, cases |-> {},
                  panic |-> FALSE, cut |-> FALSE, nilBlack |-> TRUE, seen |-> {}])

\* deleteFixup(x): the loop, then x is colored black.
deleteFixup(t, x) ==
  DeleteFixupEnd(DeleteFixupLoop([t |-> t, x |-> x, rot |-> 0, iter |-> 0, cases |-> {},
                                  panic |-> FALSE, cut |-> FALSE, nilBlack |-> TRUE, seen |-> {}]))

\* resetSentinel without its SetParent call.
resetSentinelKeepsParent(t) ==
  setColor(SetRight(SetLeft(t, Sentinel, NilPtr), Sentinel, NilPtr), Sentinel, Black)

\* resetSentinel: children nil, parent itself; setColor skips the sentinel.
resetSentinel(t) ==
  setColor(SetParent(SetRight(SetLeft(t, Sentinel, NilPtr), Sentinel, NilPtr),
                     Sentinel, Sentinel), Sentinel, Black)

\* The left iteration without the recoloring of case 3: z's parent stays red.
InsertFixupLeftNoRecolor(s) ==
  LET t == s.t
      z == s.z
      g == t.parent[t.parent[z]]
      y == t.right[g]
      case2 == z = t.right[t.parent[z]]
      z1 == IF case2 THEN t.parent[z] ELSE z
      t1 == IF case2 THEN RotateLeft(t, z1) ELSE t
      r1 == IF case2 THEN 1 ELSE 0
  IN  IF y = NilPtr THEN [s EXCEPT !.panic = TRUE, !.seen = @ \cup {g}]
      ELSE IF isRed(t, y)
      THEN [s EXCEPT !.t = setColor(setColor(setColor(t, t.parent[z], Black), y, Black), g, Red),
                     !.z = g, !.iter = @ + 1, !.cases = @ \cup {1}, !.seen = @ \cup {g}]
      ELSE [s EXCEPT !.t = [u \in {t1} |-> RotateRight(u, u.parent[u.parent[z1]])][t1], !.z = z1,
                     !.rot = @ + r1 + 1, !.iter = @ + 1,
                     !.cases = @ \cup {3} \cup (IF case2 THEN {2} ELSE {}),
                     !.seen = @ \cup {g}]

\* One iteration of the loop of insertFixup, z's parent a left child.  The
\* heaps t1 and t2 are evaluated once and named u.
InsertFixupLeft(s) ==
  LET t == s.t
      z == s.z
      g == t.parent[t.parent[z]]
      y == t.right[g]
      case2 == z = t.right[t.parent[z]]
      z1 == IF case2 THEN t.parent[z] ELSE z
      t1 == IF case2 THEN RotateLeft(t, z1) ELSE t
      r1 == IF case2 THEN 1 ELSE 0
      t2 == [u \in {t1} |-> setColor(setColor(u, u.parent[z1], Black), u.parent[u.parent[z1]], Red)][t1]
  IN  IF y = NilPtr THEN [s EXCEPT !.panic = TRUE, !.seen = @ \cup {g}]
      ELSE IF isRed(t, y)
      THEN [s EXCEPT !.t = setColor(setColor(setColor(t, t.parent[z], Black), y, Black), g, Red),
                     !.z = g, !.iter = @ + 1, !.cases = @ \cup {1}, !.seen = @ \cup {g}]
      ELSE [s EXCEPT !.t = [u \in {t2} |-> RotateRight(u, u.parent[u.parent[z1]])][t2], !.z = z1,
                     !.rot = @ + r1 + 1, !.iter = @ + 1,
                     !.cases = @ \cup {3} \cup (IF case2 THEN {2} ELSE {}),
                     !.seen = @ \cup {g}]

\* The mirror iteration, z's parent a right child.
InsertFixupRight(s) ==
  LET t == s.t
      z == s.z
      g == t.parent[t.parent[z]]
      y == t.left[g]
      case2 == z = t.left[t.parent[z]]
      z1 == IF case2 THEN t.parent[z] ELSE z
      t1 == IF case2 THEN RotateRight(t, z1) ELSE t
      r1 == IF case2 THEN 1 ELSE 0
      t2 == [u \in {t1} |-> setColor(setColor(u, u.parent[z1], Black), u.parent[u.parent[z1]], Red)][t1]
  IN  IF y = NilPtr THEN [s EXCEPT !.panic = TRUE, !.seen = @ \cup {g}]
      ELSE IF isRed(t, y)
      THEN [s EXCEPT !.t = setColor(setColor(setColor(t, t.parent[z], Black), y, Black), g, Red),
                     !.z = g, !.iter = @ + 1, !.cases = @ \cup {1}, !.seen = @ \cup {g}]
      ELSE [s EXCEPT !.t = [u \in {t2} |-> RotateLeft(u, u.parent[u.parent[z1]])][t2], !.z = z1,
                     !.rot = @ + r1 + 1, !.iter = @ + 1,
                     !.cases = @ \cup {3} \cup (IF case2 THEN {2} ELSE {}),
                     !.seen = @ \cup {g}]

RECURSIVE InsertFixupLoop(_)
InsertFixupLoop(s) ==
  IF s.panic \/ s.cut THEN s
  ELSE IF s.t.parent[s.z] = NilPtr THEN [s EXCEPT !.panic = TRUE]
  ELSE IF isRed(s.t, s.t.parent[s.z])
  THEN IF s.iter >= LoopFuel THEN [s EXCEPT !.cut = TRUE]
       ELSE IF s.t.parent[s.z] = s.t.left[s.t.parent[s.t.parent[s.z]]]
       THEN InsertFixupLoop(SeeSentinel(InsertFixupLeft(s)))
       ELSE InsertFixupLoop(SeeSentinel(InsertFixupRight(s)))
  ELSE s

\* The end of insertFixup without the coloring of the root.
InsertFixupEndKeepsRoot(s) ==
  SeeSentinel([t |-> s.t, x |-> s.z, rot |-> s.rot, iter |-> s.iter, cases |-> s.cases,
               panic |-> s.panic, cut |-> s.cut, nilBlack |-> s.nilBlack, seen |-> s.seen])

\* The end of insertFixup: the root is colored black.
InsertFixupEnd(s) ==
  SeeSentinel([t |-> IF s.panic \/ s.cut THEN s.t ELSE setColor(s.t, s.t.root, Black),
               x |-> s.z, rot |-> s.rot, iter |-> s.iter, cases |-> s.cases,
               panic |-> s.panic, cut |-> s.cut, nilBlack |-> s.nilBlack, seen |-> s.seen])

\* insertFixup without its loop: only the root is colored black.
insertFixupNoLoop(t, z) ==
  InsertFixupEnd([t |-> t, z |-> z, rot |-> 0, iter |-> 0, cases |-> {},
                  panic |-> FALSE, cut |-> FALSE, nilBlack |-> TRUE, seen |-> {}])

\* insertFixup(z): the loop, then the root is colored black.
insertFixup(t, z) ==
  InsertFixupEnd(InsertFixupLoop([t |-> t, z |-> z, rot |-> 0, iter |-> 0, cases |-> {},
                                  panic |-> FALSE, cut |-> FALSE, nilBlack |-> TRUE, seen |-> {}]))

\* The record of a fixup that did not run.
NoFix(t) == [t |-> t, x |-> Sentinel, rot |-> 0, iter |-> 0, cases |-> {}, panic |-> FALSE, cut |-> FALSE,
            nilBlack |-> TRUE, seen |-> {}]

\* The end of rbtree Insert returning the root in place of the new node.
RBInsertEndReturnsRoot(sz, n, fix) ==
  [t |-> fix.t, size |-> IF fix.panic \/ fix.cut THEN sz ELSE sz + 1,
   node |-> fix.t.root, flag |-> TRUE, fix |-> [fix EXCEPT !.t = 0]]

\* The end of rbtree Insert for a new node n, fix the run of insertFixup.
RBInsertEnd(sz, n, fix) ==
  [t |-> fix.t, size |-> IF fix.panic \/ fix.cut THEN sz ELSE sz + 1,
   node |-> n, flag |-> TRUE, fix |-> [fix EXCEPT !.t = 0]]

\* rbtree Insert after t.Tree.Insert returned r.
RBInsertFix(sz, r) ==
  IF ~r.flag
  THEN [t |-> r.t, size |-> sz, node |-> r.node, flag |-> FALSE, fix |-> NoFix(0)]
  ELSE RBInsertEnd(sz, r.node, insertFixup(setColor(r.t, r.node, Red), r.node))

\* rbtree Insert counting the call also when the key existed.
RBInsertCountsUpdate(t, sz, id, key, value) ==
  LET r == TreeInsert(t, id, key, value)
  IN  RBInsertFix(IF r.flag THEN sz ELSE sz + 1, r)

\* rbtree Insert(key, value): the tree, the size, the node and boolean returned,
\* and the run of insertFixup (fix.iter = 0 when it did not loop).
RBInsert(t, sz, id, key, value) == RBInsertFix(sz, TreeInsert(t, id, key, value))

\* The splice copying y's key into z but not y's value.
RBSpliceKeyOnly(t, z) ==
  LET y == IF IsNil(t.left[z]) \/ IsNil(t.right[z]) THEN z ELSE Successor(t, z)
      x == IF ~IsNil(t.left[y]) THEN t.left[y] ELSE t.right[y]
      t1 == SetParent(t, x, t.parent[y])
      t2 == IF IsNil(t1.parent[y]) THEN SetRoot(t1, x)
            ELSE IF y = t1.left[t1.parent[y]] THEN SetLeft(t1, t1.parent[y], x)
            ELSE SetRight(t1, t1.parent[y], x)
  IN  [t |-> IF y # z THEN SetKey(t2, z, t2.key[y]) ELSE t2,
       y |-> y, x |-> x]

\* The splice copying y's color into z along with its key and value.
RBSpliceCopiesColor(t, z) ==
  LET y == IF IsNil(t.left[z]) \/ IsNil(t.right[z]) THEN z ELSE Successor(t, z)
      x == IF ~IsNil(t.left[y]) THEN t.left[y] ELSE t.right[y]
      t1 == SetParent(t, x, t.parent[y])
      t2 == IF IsNil(t1.parent[y]) THEN SetRoot(t1, x)
            ELSE IF y = t1.left[t1.parent[y]] THEN SetLeft(t1, t1.parent[y], x)
            ELSE SetRight(t1, t1.parent[y], x)
  IN  [t |-> IF y # z
             THEN setColor(SetValue(SetKey(t2, z, t2.key[y]), z, t2.value[y]), z, t2.metadata[y])
             ELSE t2,
       y |-> y, x |-> x]

\* The splice of rbtree Delete(z): y is the node spliced out, x its child that
\* takes its place; when y is not z, y's key and value are copied into z.
RBSplice(t, z) ==
  LET y == IF IsNil(t.left[z]) \/ IsNil(t.right[z]) THEN z ELSE Successor(t, z)
      x == IF ~IsNil(t.left[y]) THEN t.left[y] ELSE t.right[y]
      t1 == SetParent(t, x, t.parent[y])
      t2 == IF IsNil(t1.parent[y]) THEN SetRoot(t1, x)
            ELSE IF y = t1.left[t1.parent[y]] THEN SetLeft(t1, t1.parent[y], x)
            ELSE SetRight(t1, t1.parent[y], x)
  IN  [t |-> IF y # z THEN SetValue(SetKey(t2, z, t2.key[y]), z, t2.value[y]) ELSE t2,
       y |-> y, x |-> x]

\* The end of rbtree Delete: the sentinel is reset and the size decremented.
RBDeleteEnd(sz, sp, fix) ==
  [t |-> IF fix.panic \/ fix.cut THEN fix.t ELSE resetSentinel(fix.t),
   size |-> IF fix.panic \/ fix.cut THEN sz ELSE sz - 1,
   flag |-> ~(fix.panic \/ fix.cut), y |-> sp.y, x |-> sp.x, yBlack |-> isBlack(sp.t, sp.y),
   fix |-> [fix EXCEPT !.t = 0]]

\* rbtree Delete running deleteFixup(x) whatever the color of y.
RBDeleteFixAlways(sz, sp) == RBDeleteEnd(sz, sp, deleteFixup(sp.t, sp.x))

\* rbtree Delete after the splice sp: deleteFixup(x) when y is black.
RBDeleteFix(sz, sp) ==
  RBDeleteEnd(sz, sp, IF isBlack(sp.t, sp.y) THEN deleteFixup(sp.t, sp.x) ELSE NoFix(sp.t))

\* rbtree Delete(z)
RBDelete(t, sz, z) ==
  IF IsNil(z) \/ z = NilPtr
  THEN [t |-> t, size |-> sz, flag |-> FALSE, y |-> Sentinel, x |-> Sentinel,
        yBlack |-> FALSE, fix |-> NoFix(0)]
  ELSE RBDeleteFix(sz, RBSplice(t, z))

\* The methods of bst.Tree that rbtree.Tree shadows with a method that only
\* panics: the call returns nothing and leaves the tree as it was.
ShadowPanic(t) == [t |-> t, panic |-> TRUE]

RBMustSetMetadata(t) == ShadowPanic(t)

\* A RotateLeft that reaches the embedded bst.Tree, applied to the root.
RBRotateLeftPromoted(t) == [t |-> RotateLeft(t, t.root), panic |-> FALSE]

RBRotateLeft(t) == ShadowPanic(t)

RBRotateRight(t) == ShadowPanic(t)

RBSetLeft(t) == ShadowPanic(t)

RBSetMetadata(t) == ShadowPanic(t)

RBSetParent(t) == ShadowPanic(t)

RBSetRight(t) == ShadowPanic(t)

RBTransplant(t) == ShadowPanic(t)

Shadowed == {"MustSetMetadata", "RotateLeft", "RotateRight", "SetLeft", "SetMetadata",
             "SetParent", "SetRight", "Transplant"}

ShadowCall(t, m) ==
  CASE m = "MustSetMetadata" -> RBMustSetMetadata(t)
    [] m = "RotateLeft" -> RBRotateLeft(t)
    [] m = "RotateRight" -> RBRotateRight(t)
    [] m = "SetLeft" -> RBSetLeft(t)
    [] m = "SetMetadata" -> RBSetMetadata(t)
    [] m = "SetParent" -> RBSetParent(t)
    [] m = "SetRight" -> RBSetRight(t)
    [] m = "Transplant" -> RBTransplant(t)

\* rbtree.Tree declares no SetKey and no SetRoot: the calls on an rbtree.Tree
\* are the promoted methods of the embedded bst.Tree, as in Delete's own
\* t.SetRoot(x).
RBSetKey(t, n, k) == [t |-> SetKey(t, n, k), panic |-> FALSE]

RBSetRoot(t, n) == [t |-> SetRoot(t, n), panic |-> FALSE]

\* The methods the package documentation of rbtree lists as shadowed.
DocUnsafe == {"MustSetMetadata", "SetKey", "SetLeft", "SetMetadata", "SetParent", "SetRight",
              "SetRoot", "Transplant"}

\* The number of black nodes from n up to the sentinel (the loop of IsTreeValid).
RECURSIVE BlackCountF(_, _, _)
BlackCountF(t, n, d) ==
  IF IsNil(n) \/ n = NilPtr \/ d = 0 THEN 0
  ELSE (IF isBlack(t, n) THEN 1 ELSE 0) + BlackCountF(t, t.parent[n], d - 1)

\* The number of nodes from n up to the sentinel, whatever their color.
RECURSIVE DepthF(_, _, _)
DepthF(t, n, d) == IF IsNil(n) \/ n = NilPtr \/ d = 0 THEN 0 ELSE 1 + DepthF(t, t.parent[n], d - 1)

BlackCountAnyColor(t, n) == DepthF(t, n, Fuel)

BlackCount(t, n) == BlackCountF(t, n, Fuel)

\* rbtree IsTreeValid: the error it returns, "" for nil.  The key of a black
\* count mismatch is read through n after the counting loop has walked n up
\* to the sentinel.
RBIsTreeValid(t) ==
  LET b == BstIsTreeValid(t)
      s == InOrder(t, t.root)
      redLeft(i) == isRed(t, s[i]) /\ isRed(t, t.left[s[i]])
      redRight(i) == isRed(t, s[i]) /\ isRed(t, t.right[s[i]])
      counted(i) == IsLeaf(t, s[i]) \/ IsUnary(t, s[i])
      firstLeaf(i) == counted(i) /\ \A j \in 1..(i - 1) : ~counted(j)
      mismatch(i) == counted(i) /\ ~firstLeaf(i)
                     /\ \E j \in 1..(i - 1) : firstLeaf(j) /\ BlackCount(t, s[i]) # BlackCount(t, s[j])
      bad == {i \in 1..Len(s) : redLeft(i) \/ redRight(i) \/ mismatch(i)}
  IN  IF b.err # "" THEN [err |-> "underlying BST is invalid", key |-> b.key]
      ELSE IF ~isBlack(t, t.root) THEN [err |-> "root node is not black", key |-> 0]
      ELSE IF t.metadata[t.parent[t.root]] # Black
      THEN [err |-> "sentinel nil node is not black", key |-> 0]
      ELSE IF bad = {} THEN [err |-> "", key |-> 0]
      ELSE LET i == CHOOSE i \in bad : \A j \in bad : i <= j
           IN  IF redLeft(i) THEN [err |-> "red left child", key |-> t.key[s[i]]]
               ELSE IF redRight(i) THEN [err |-> "red right child", key |-> t.key[s[i]]]
               ELSE [err |-> "black count mismatch", key |-> t.key[Sentinel]]

\* ------------------------------------------------------------------ state
\* layer: which package the client uses ("bst": a bst.Tree with boolean
\* metadata, "rb": an rbtree.Tree).  tree/size: the tree and rbtree's size
\* field.  inputs: the (key, value) pairs the client draws its arguments
\* from.  held: a node pointer the client has kept (nil: none).  last: the
\* last call, its arguments and results (node addresses as the call saw
\* them) and the renaming of addresses applied after it.  amap: the key/value map the calls
\* so far describe (0: absent).  panicked: a call dereferenced a nil pointer
\* or did not return.
VARIABLES layer, inputs, tree, size, held, last, amap, panicked

vars == <<layer, inputs, tree, size, held, last, amap, panicked>>

InputKeys == {p[1] : p \in inputs}

IdRen == [n \in Ptrs |-> n]

NoCall ==
  [op |-> "new", key |-> 0, value |-> 0, arg |-> Sentinel, node |-> Sentinel, flag |-> FALSE,
   kind |-> "", seq |-> <<>>, set |-> {}, y |-> Sentinel, x |-> Sentinel, yBlack |-> FALSE, fix |-> NoFix(0),
   ren |-> IdRen]

\* The nodes the program can still reach: from the root, the sentinel and the
\* pointer the client holds, through parent, left and right.
RECURSIVE ReachF(_, _, _)
ReachF(t, S, d) ==
  LET S2 == (S \cup {t.left[n] : n \in S} \cup {t.right[n] : n \in S} \cup {t.parent[n] : n \in S})
            \cap Nodes
  IN  IF S2 = S \/ d = 0 THEN S ELSE ReachF(t, S2, d - 1)

Live(t, h) == ReachF(t, ({Sentinel, t.root, h}) \cap Nodes, Fuel)

\* The nodes of the tree, as TraverseInOrder from the root visits them.
InTree(t) ==
  LET s == InOrder(t, t.root) IN {s[i] : i \in 1..Len(s)} \ {Sentinel}

\* Node addresses are opaque (the program only compares them for equality)
\* and the storage of unreachable nodes is reclaimed, so the heap is kept up
\* to a renaming of addresses: Renaming(t, h) moves every node of the tree to
\* the address equal to its key and the other reachable nodes to the lowest
\* remaining addresses; unreachable nodes map to nil.
Renaming(t, h) ==
  LET nodes == InTree(t)
      keys == {t.key[n] : n \in nodes}
      ok == Cardinality(keys) = Cardinality(nodes) /\ keys \subseteq 1..MaxNodes
      live == Live(t, h)
      dead == live \ (nodes \cup {Sentinel})
      targets == (1..MaxNodes) \ keys
      rank(S, e) == Cardinality({m \in S : m < e})
  IN  [n \in Ptrs |->
         IF n = Sentinel \/ n = NilPtr THEN n
         ELSE IF ~ok THEN (IF n \in live THEN n ELSE NilPtr)
         ELSE IF n \in nodes THEN t.key[n]
         ELSE IF n \in dead THEN CHOOSE e \in targets : rank(targets, e) = rank(dead, n)
         ELSE NilPtr]

\* The heap t with every address n replaced by ren[n].
Rename(t, ren) ==
  LET img == {ren[n] : n \in Ptrs} \ {NilPtr}
      src == [m \in img |-> CHOOSE n \in Ptrs : ren[n] = m]
      z == New(FALSE)
  IN  [root |-> ren[t.root],
       key |-> [m \in Ptrs |-> IF m \in img THEN t.key[src[m]] ELSE z.key[m]],
       value |-> [m \in Ptrs |-> IF m \in img THEN t.value[src[m]] ELSE z.value[m]],
       parent |-> [m \in Ptrs |-> IF m \in img THEN ren[t.parent[src[m]]] ELSE NilPtr],
       left |-> [m \in Ptrs |-> IF m \in img THEN ren[t.left[src[m]]] ELSE NilPtr],
       right |-> [m \in Ptrs |-> IF m \in img THEN ren[t.right[src[m]]] ELSE NilPtr],
       metadata |-> [m \in Ptrs |-> IF m \in img THEN t.metadata[src[m]] ELSE z.metadata[m]]]

\* ren moves no node and the slots it gives up hold what New leaves there.
Settled(t, ren) ==
  \A n \in Ptrs :
     \/ ren[n] = n /\ n # NilPtr
     \/ /\ ren[n] = NilPtr
        /\ t.key[n] = 0 /\ t.value[n] = 0 /\ t.parent[n] = NilPtr /\ t.left[n] = NilPtr
        /\ t.right[n] = NilPtr /\ t.metadata[n] = FALSE

\* The address of the node a new key allocates: any address not in use (the
\* program compares addresses for equality only).
FreeIds(t, h) == (1..MaxNodes) \ Live(t, h)

NewId(t, h, key) ==
  IF key \in FreeIds(t, h) THEN key ELSE CHOOSE n \in FreeIds(t, h) : \A m \in FreeIds(t, h) : n <= m

\* The client that draws from all of Keys adds the keys 1, 2, 3, ... in this
\* order, inserting k only when the tree holds exactly the keys below k, and
\* deletes the smallest key, the largest key or the key at the root.
Ascending == inputs = Pairs(Keys, {1})

AscendingInsert(t, k) == Ascending => {t.key[n] : n \in InTree(t)} = 1..(k - 1)

AscendingDelete(t, k) ==
  Ascending => k \in {t.key[Min(t, t.root)], t.key[Max(t, t.root)], t.key[t.root]}

Init ==
  /\ layer \in {"bst", "rb"}
  /\ inputs \in {Pairs(IF layer = "rb" THEN RbKeys ELSE BstKeys, {1}), Pairs(ValKeys, Values)}
                 \cup (IF layer = "rb" THEN {Pairs(Keys, {1})} ELSE {})
  /\ tree = IF layer = "rb" THEN RBNew ELSE New(FALSE)
  /\ size = 0
  /\ held = NilPtr
  /\ last = NoCall
  /\ amap = [k \in Keys |-> 0]
  /\ panicked = FALSE

\* The end of a call that left the heap t: the addresses are renamed by ren
\* (a renaming that moves nothing and frees only untouched storage leaves t
\* as it is), and call records the call and its results.
Return(t, ren, call) ==
  /\ tree' = IF ren = IdRen \/ Settled(t, ren) THEN t ELSE Rename(t, ren)
  /\ held' = ren[held]
  /\ last' = [call EXCEPT !.ren = ren]

\* How Delete finds the node n it is passed.
DeleteKind(n, kind) ==
  IF n = NilPtr \/ n = Sentinel THEN "nil"
  ELSE IF n \notin InTree(tree) THEN "stale"
  ELSE kind

RBInserted(k, v, r) ==
  /\ Return(r.t, Renaming(r.t, held),
            [NoCall EXCEPT !.op = "insert", !.key = k, !.value = v, !.node = r.node,
                           !.flag = r.flag, !.fix = r.fix,
                           !.kind = IF Search(tree, k).found THEN "update" ELSE "new"])
  /\ size' = r.size
  /\ panicked' = (r.fix.panic \/ r.fix.cut)

\* rbtree: tree.Insert(k, v)
RBInsertOp(k, v) ==
  /\ layer = "rb" /\ ~panicked
  /\ Search(tree, k).found \/ FreeIds(tree, held) # {}
  /\ AscendingInsert(tree, k)
  /\ RBInserted(k, v, RBInsert(tree, size, NewId(tree, held, k), k, v))
  /\ amap' = [amap EXCEPT ![k] = v]
  /\ UNCHANGED <<layer, inputs>>

RBDeleted(n, op, r) ==
  /\ Return(r.t, Renaming(r.t, held),
            [NoCall EXCEPT !.op = op, !.key = tree.key[n], !.arg = n, !.flag = r.flag,
                           !.y = r.y, !.x = r.x, !.yBlack = r.yBlack, !.fix = r.fix,
                           !.kind = DeleteKind(n, IF r.y = n THEN "one" ELSE "two")])
  /\ size' = r.size
  /\ panicked' = (r.fix.panic \/ r.fix.cut)

\* The call tree.Delete(n) of rbtree, n any pointer.
RBDeleteCall(n, op) ==
  /\ RBDeleted(n, op, RBDelete(tree, size, n))
  /\ amap' = IF n \in InTree(tree) THEN [amap EXCEPT ![tree.key[n]] = 0] ELSE amap

\* rbtree: n, _ := tree.Search(k); tree.Delete(n)
RBDeleteOp(k) ==
  /\ layer = "rb" /\ ~panicked
  /\ AscendingDelete(tree, k)
  /\ RBDeleteCall(Search(tree, k).node, "delete")
  /\ UNCHANGED <<layer, inputs>>

\* rbtree: tree.Delete(nil)
RBDeleteNilOp ==
  /\ layer = "rb" /\ ~panicked
  /\ RBDeleteCall(NilPtr, "delete")
  /\ UNCHANGED <<layer, inputs>>

BstInserted(k, v, r) ==
  Return(r.t, Renaming(r.t, held),
         [NoCall EXCEPT !.op = "insert", !.key = k, !.value = v, !.node = r.node,
                        !.flag = r.flag,
                        !.kind = IF Search(tree, k).found THEN "update" ELSE "new"])

\* bst: tree.Insert(k, v)
BstInsertOp(k, v) ==
  /\ layer = "bst" /\ ~panicked
  /\ Search(tree, k).found \/ FreeIds(tree, held) # {}
  /\ BstInserted(k, v, Insert(tree, NewId(tree, held, k), k, v))
  /\ amap' = [amap EXCEPT ![k] = v]
  /\ UNCHANGED <<layer, inputs, size, panicked>>

BstDeleted(n, op, r) ==
  Return(r.t, Renaming(r.t, held),
         [NoCall EXCEPT !.op = op, !.key = tree.key[n], !.arg = n,
                        !.node = r.node, !.flag = r.flag,
                        !.kind = DeleteKind(n, IF tree.left[n] = Sentinel THEN "noLeft"
                                               ELSE IF tree.right[n] = Sentinel THEN "noRight"
                                               ELSE IF tree.left[tree.right[n]] = Sentinel
                                               THEN "adjacent" ELSE "deep")])

\* The call tree.Delete(n) of bst, n any pointer.
BstDeleteCall(n, op) ==
  /\ BstDeleted(n, op, Delete(tree, n))
  /\ amap' = IF n \in InTree(tree) THEN [amap EXCEPT ![tree.key[n]] = 0] ELSE amap

\* bst: tree.Delete(n) for a node of the tree, the sentinel or nil
BstDeleteOp(n) ==
  /\ layer = "bst" /\ ~panicked
  /\ n \in InTree(tree) \cup {Sentinel, NilPtr}
  /\ BstDeleteCall(n, "delete")
  /\ UNCHANGED <<layer, inputs, size, panicked>>

\* bst: tree.RotateLeft(n) or tree.RotateRight(n) for a node of the tree, the
\* sentinel or nil
BstRotateOp(dir, n) ==
  /\ layer = "bst" /\ ~panicked
  /\ n \in InTree(tree) \cup {Sentinel, NilPtr}
  /\ Return(IF dir = "rotateLeft" THEN RotateLeft(tree, n) ELSE RotateRight(tree, n), IdRen,
            [NoCall EXCEPT !.op = dir, !.arg = n,
                           !.kind = IF n \in {NilPtr, Sentinel} THEN "nil"
                                    ELSE IF dir = "rotateLeft" /\ tree.right[n] = Sentinel
                                    THEN "noChild"
                                    ELSE IF dir = "rotateRight" /\ tree.left[n] = Sentinel
                                    THEN "noChild" ELSE "rotated"])
  /\ UNCHANGED <<layer, inputs, size, amap, panicked>>

RBShadowed(m, r) ==
  Return(r.t, IdRen, [NoCall EXCEPT !.op = m, !.kind = IF r.panic THEN "panic" ELSE "returned"])

\* rbtree: a call of a shadowed method inside assert.Panics, which recovers
\* the panic so that the client goes on.
RBShadowOp(m) ==
  /\ layer = "rb" /\ ~panicked
  /\ RBShadowed(m, ShadowCall(tree, m))
  /\ UNCHANGED <<layer, inputs, size, amap, panicked>>

\* bst: tree.SetMetadata(n, m) for a node of the tree
BstSetMetadataOp(n, m) ==
  /\ layer = "bst" /\ ~panicked
  /\ n \in InTree(tree) /\ tree.metadata[n] # m
  /\ m => Cardinality({x \in InTree(tree) : tree.metadata[x]}) < MaxMarked
  /\ Return(SetMetadata(tree, n, m), IdRen,
            [NoCall EXCEPT !.op = "setMetadata", !.key = tree.key[n], !.arg = n])
  /\ UNCHANGED <<layer, inputs, size, amap, panicked>>

Next ==
  \/ \E p \in inputs : RBInsertOp(p[1], p[2])
  \/ \E k \in InputKeys : RBDeleteOp(k)
  \/ RBDeleteNilOp
  \/ \E p \in inputs : BstInsertOp(p[1], p[2])
  \/ \E n \in Ptrs : BstDeleteOp(n)

Spec == Init /\ [][Next]_vars

\* A client that keeps a node pointer and passes it to Delete later, also
\* after the node has left the tree.
Keep(k) ==
  /\ ~panicked /\ held = NilPtr /\ Search(tree, k).found
  /\ held' = Search(tree, k).node
  /\ last' = [NoCall EXCEPT !.op = "keep", !.key = k, !.node = Search(tree, k).node]
  /\ UNCHANGED <<layer, inputs, tree, size, amap, panicked>>

RBDeleteHeld ==
  /\ layer = "rb" /\ ~panicked /\ held # NilPtr
  /\ RBDeleteCall(held, "deleteHeld")
  /\ UNCHANGED <<layer, inputs>>

BstDeleteHeld ==
  /\ layer = "bst" /\ ~panicked /\ held # NilPtr
  /\ BstDeleteCall(held, "deleteHeld")
  /\ UNCHANGED <<layer, inputs, size, panicked>>

InitStale == Init /\ inputs = Pairs(ValKeys, Values)

\* The client makes at most one other call between keeping the pointer and
\* passing it to Delete, and stops once it has passed a node that is not in
\* the tree.
NextStale ==
  /\ last.kind # "stale"
  /\ \/ (held = NilPtr \/ last.op = "keep") /\ Next
     \/ \E k \in InputKeys : Keep(k)
     \/ RBDeleteHeld
     \/ BstDeleteHeld

SpecStale == InitStale /\ [][NextStale]_vars

\* The loop n := Min(Root()); for !IsNil(n) { append(n.key); n = Successor(n) }
\* and its mirror from Max with Predecessor: the keys appended.
RECURSIVE Walk(_, _, _, _)
Walk(t, dir, n, d) ==
  IF IsNil(n) \/ n = NilPtr \/ d = 0 THEN <<>>
  ELSE <<t.key[n]>> \o Walk(t, dir, IF dir = "walkUp" THEN Successor(t, n) ELSE Predecessor(t, n),
                            d - 1)

WalkFrom(t, dir) ==
  Walk(t, dir, IF dir = "walkUp" THEN Min(t, t.root) ELSE Max(t, t.root), Fuel)

\* bst: tree.Successor(n) or tree.Predecessor(n) for a node of the tree
BstNeighbourOp(dir, n) ==
  /\ layer = "bst" /\ ~panicked /\ n \in InTree(tree)
  /\ Return(tree, IdRen,
            [NoCall EXCEPT !.op = dir, !.arg = n, !.key = tree.key[n],
                           !.node = IF dir = "successor" THEN Successor(tree, n)
                                    ELSE Predecessor(tree, n)])
  /\ UNCHANGED <<layer, inputs, size, amap, panicked>>

\* bst: tree.Min(n) or tree.Max(n) for a node of the tree
BstExtremeOp(dir, n) ==
  /\ layer = "bst" /\ ~panicked /\ n \in InTree(tree)
  /\ Return(tree, IdRen,
            [NoCall EXCEPT !.op = dir, !.arg = n, !.key = tree.key[n],
                           !.node = IF dir = "min" THEN Min(tree, n) ELSE Max(tree, n)])
  /\ UNCHANGED <<layer, inputs, size, amap, panicked>>

\* bst: the walk over the whole tree, upwards or downwards
BstWalkOp(dir) ==
  /\ layer = "bst" /\ ~panicked
  /\ Return(tree, IdRen, [NoCall EXCEPT !.op = dir, !.seq = WalkFrom(tree, dir)])
  /\ UNCHANGED <<layer, inputs, size, amap, panicked>>

\* A client of bst alone, which besides Insert and Delete sets metadata.
InitBst == Init /\ layer = "bst" /\ inputs = Pairs(BstKeys, {1})

NextBst ==
  \/ \E p \in inputs : BstInsertOp(p[1], p[2])
  \/ \E n \in Ptrs : BstDeleteOp(n)
  \/ \E n \in Nodes, m \in BOOLEAN : BstSetMetadataOp(n, m)

SpecBst == InitBst /\ [][NextBst]_vars

\* A client of bst that inserts, deletes and rotates.
NextRotate ==
  \/ \E p \in inputs : BstInsertOp(p[1], p[2])
  \/ \E n \in Ptrs : BstDeleteOp(n)
  \/ \E dir \in {"rotateLeft", "rotateRight"}, n \in Ptrs : BstRotateOp(dir, n)

SpecRotate == InitBst /\ [][NextRotate]_vars

\* A client of bst that inserts, deletes, asks for neighbours and walks the
\* tree.
NextWalk ==
  \/ \E p \in inputs : BstInsertOp(p[1], p[2])
  \/ \E n \in Ptrs : BstDeleteOp(n)
  \/ \E dir \in {"successor", "predecessor"}, n \in Nodes : BstNeighbourOp(dir, n)
  \/ \E dir \in {"walkUp", "walkDown"} : BstWalkOp(dir)
  \/ \E dir \in {"min", "max"}, n \in Nodes : BstExtremeOp(dir, n)

SpecWalk == InitBst /\ [][NextWalk]_vars

\* Floor(key) and Ceiling(key): a walk from the root guided by less that
\* keeps the best candidate seen so far; (best, found) at the sentinel.
RECURSIVE FloorF(_, _, _, _, _)
FloorF(t, key, n, best, d) ==
  IF n = Sentinel \/ n = NilPtr \/ d = 0 THEN [node |-> best, found |-> best # Sentinel]
  ELSE IF keyEq(key, t.key[n]) THEN [node |-> n, found |-> TRUE]
  ELSE IF less(key, t.key[n]) THEN FloorF(t, key, t.left[n], best, d - 1)
  ELSE FloorF(t, key, t.right[n], n, d - 1)

Floor(t, key) == FloorF(t, key, t.root, Sentinel, Fuel)

RECURSIVE CeilingF(_, _, _, _, _)
CeilingF(t, key, n, best, d) ==
  IF n = Sentinel \/ n = NilPtr \/ d = 0 THEN [node |-> best, found |-> best # Sentinel]
  ELSE IF keyEq(key, t.key[n]) THEN [node |-> n, found |-> TRUE]
  ELSE IF less(key, t.key[n]) THEN CeilingF(t, key, t.left[n], n, d - 1)
  ELSE CeilingF(t, key, t.right[n], best, d - 1)

Ceiling(t, key) == CeilingF(t, key, t.root, Sentinel, Fuel)

\* The keys asked for: the keys inserted, one below and one above them.
QueryKeys == 0..(BstMaxKey + 1)

\* bst: tree.Floor(k) or tree.Ceiling(k)
BstFloorOp(dir, k) ==
  /\ layer = "bst" /\ ~panicked
  /\ Return(tree, IdRen,
            [NoCall EXCEPT !.op = dir, !.key = k,
                           !.node = IF dir = "floor" THEN Floor(tree, k).node
                                    ELSE Ceiling(tree, k).node,
                           !.flag = IF dir = "floor" THEN Floor(tree, k).found
                                    ELSE Ceiling(tree, k).found])
  /\ UNCHANGED <<layer, inputs, size, amap, panicked>>

\* A client of bst that inserts, deletes and asks for floors and ceilings.
NextQuery ==
  \/ \E p \in inputs : BstInsertOp(p[1], p[2])
  \/ \E n \in Ptrs : BstDeleteOp(n)
  \/ \E dir \in {"floor", "ceiling"}, k \in QueryKeys : BstFloorOp(dir, k)

SpecQuery == InitBst /\ [][NextQuery]_vars

\* bst: tree.TraverseInOrder(n, f) for a node n of the tree and an f that
\* returns true for the nodes in accept and false for the others
BstTraverseOp(n, accept) ==
  /\ layer = "bst" /\ ~panicked /\ n \in InTree(tree)
  /\ Return(tree, IdRen,
            [NoCall EXCEPT !.op = "traverse", !.arg = n, !.set = accept,
                           !.seq = Visited(tree, n, accept),
                           !.flag = TraverseInOrder(tree, n, accept)])
  /\ UNCHANGED <<layer, inputs, size, amap, panicked>>

\* A client of bst that inserts, deletes and traverses subtrees.
NextTraverse ==
  \/ \E p \in inputs : BstInsertOp(p[1], p[2])
  \/ \E n \in Ptrs : BstDeleteOp(n)
  \/ \E n \in Nodes : \E accept \in SUBSET InTree(tree) : BstTraverseOp(n, accept)

SpecTraverse == InitBst /\ [][NextTraverse]_vars

\* A client of rbtree that also calls the methods the package documentation
\* tells it not to use, each inside a recover, and stops after a call that
\* returned instead of panicking.
RBSetKeyOp(n, k) ==
  /\ layer = "rb" /\ ~panicked /\ n \in InTree(tree)
  /\ Return(RBSetKey(tree, n, k).t, IdRen,
            [NoCall EXCEPT !.op = "SetKey", !.arg = n, !.key = k,
                           !.kind = IF RBSetKey(tree, n, k).panic THEN "panic" ELSE "returned"])
  /\ UNCHANGED <<layer, inputs, size, amap, panicked>>

RBSetRootOp(n) ==
  /\ layer = "rb" /\ ~panicked /\ n \in InTree(tree) \cup {Sentinel}
  /\ Return(RBSetRoot(tree, n).t, IdRen,
            [NoCall EXCEPT !.op = "SetRoot", !.arg = n,
                           !.kind = IF RBSetRoot(tree, n).panic THEN "panic" ELSE "returned"])
  /\ UNCHANGED <<layer, inputs, size, amap, panicked>>

InitUnsafe == Init /\ layer = "rb" /\ inputs = Pairs(ValKeys, Values)

NextUnsafe ==
  /\ last.kind # "returned"
  /\ \/ \E p \in inputs : RBInsertOp(p[1], p[2])
     \/ \E k \in InputKeys : RBDeleteOp(k)
     \/ \E m \in Shadowed : RBShadowOp(m)
     \/ \E n \in Nodes, k \in InputKeys : RBSetKeyOp(n, k)
     \/ \E n \in Nodes : RBSetRootOp(n)

SpecUnsafe == InitUnsafe /\ [][NextUnsafe]_vars

\* --------------------------------------------------------------- claims
\* The renaming of addresses applied by the last call.
R == last'.ren

\* The keys of the nodes of the tree in in-order.
TreeKeys(t) ==
  LET s == SelectSeq(InOrder(t, t.root), LAMBDA n : n # Sentinel)
  IN  [i \in 1..Len(s) |-> t.key[s[i]]]

\* The keys of the finite map the calls so far describe.
MapKeys == {k \in Keys : amap[k] # 0}

\* The node holding the smallest key greater than n's, for n not the maximum.
NextKeyNode(t, n) ==
  CHOOSE m \in InTree(t) :
    /\ less(t.key[n], t.key[m])
    /\ \A o \in InTree(t) : less(t.key[n], t.key[o]) => ~less(t.key[o], t.key[m])

InsertExistingOverwrites ==
  [][(last'.op = "insert" /\ Search(tree, last'.key).found) =>
       LET n == Search(tree, last'.key).node
       IN  /\ last'.node = n
           /\ last'.flag = FALSE
           /\ R[n] = n
           /\ tree' = [tree EXCEPT !.value[n] = last'.value]]_vars

\* C5: bst Insert of a key not in the tree returns (newNode, true); the new
\* node is a leaf holding the key and the value, the root of an empty tree,
\* otherwise the left child of its parent when its key is less than the
\* parent's and the right child when not.
BstInsertNewAttachesLeaf ==
  [][(layer = "bst" /\ last'.op = "insert" /\ ~Search(tree, last'.key).found) =>
       LET n == R[last'.node]
           p == tree'.parent[n]
       IN  /\ last'.flag = TRUE
           /\ n \in InTree(tree') /\ last'.node \notin InTree(tree)
           /\ tree'.key[n] = last'.key /\ tree'.value[n] = last'.value
           /\ tree'.left[n] = Sentinel /\ tree'.right[n] = Sentinel
           /\ IF tree.root = Sentinel THEN tree'.root = n /\ p = Sentinel
              ELSE /\ p \in InTree(tree')
                   /\ IF less(last'.key, tree'.key[p]) THEN tree'.left[p] = n
                      ELSE tree'.right[p] = n]_vars

DeleteNilIsNoOp ==
  [][(last'.op = "delete" /\ last'.arg \in {Sentinel, NilPtr}) =>
       /\ last'.flag = FALSE
       /\ layer = "bst" => last'.node = Sentinel
       /\ tree' = tree
       /\ size' = size]_vars

\* Delete of the sentinel Search returned for an absent key, on a tree of two
\* nodes.
DeleteNilWitness ==
  /\ last.op = "delete" /\ last.kind = "nil" /\ last.arg = Sentinel
  /\ ~last.flag
  /\ Cardinality(InTree(tree)) = 2

\* C9: Delete of a node that is neither nil nor the sentinel and is not in
\* the tree reports false and leaves the tree and Size() unchanged.
DeleteAbsentNodeIsNoOp ==
  [][(last'.op = "deleteHeld" /\ held # Sentinel /\ held \notin InTree(tree)) =>
       /\ last'.flag = FALSE
       /\ tree' = tree
       /\ size' = size]_vars

\* C10: bst Delete(n) of a node of the tree returns true; the in-order keys
\* are the previous ones without key(n), every other key is held by the node
\* that held it, and bst IsTreeValid() returns no error.
BstDeleteRemovesNode ==
  [][(layer = "bst" /\ last'.op = "delete" /\ last'.arg \in InTree(tree)) =>
       LET n == last'.arg
       IN  /\ last'.flag = TRUE
           /\ TreeKeys(tree') = SelectSeq(TreeKeys(tree), LAMBDA k : k # tree.key[n])
           /\ Len(TreeKeys(tree')) = Len(TreeKeys(tree)) - 1
           /\ \A m \in InTree(tree) \ {n} :
                R[m] \in InTree(tree') /\ tree'.key[R[m]] = tree.key[m]
           /\ R[n] \notin InTree(tree')
           /\ BstIsTreeValid(tree').err = ""]_vars

\* A Delete of a node with two children whose successor is deeper than its
\* right child has returned.
BstDeleteWitness ==
  /\ layer = "bst" /\ last.op = "delete" /\ last.kind = "deep" /\ last.flag
  /\ Cardinality(InTree(tree)) = 3

\* C11: a bst Delete of a node n of the tree returns the node that takes n's
\* place: n.right when n has no left child, n.left when it has no right
\* child, otherwise the node with the next larger key (the sentinel when n was
\* a leaf). The returned node hangs where n hung (same parent and side, or
\* the root), and unless it is the sentinel its metadata after the call is
\* the metadata n had before.
BstDeleteReturnsReplacement ==
  [][(layer = "bst" /\ last'.op = "delete" /\ last'.arg \in InTree(tree)) =>
       LET n == last'.arg
           p == tree.parent[n]
           rep == last'.node
       IN  /\ rep = IF tree.left[n] = Sentinel THEN tree.right[n]
                    ELSE IF tree.right[n] = Sentinel THEN tree.left[n]
                    ELSE NextKeyNode(tree, n)
           /\ (rep = Sentinel) <=> (tree.left[n] = Sentinel /\ tree.right[n] = Sentinel)
           /\ IF p = Sentinel THEN tree'.root = R[rep]
              ELSE IF tree.left[p] = n THEN tree'.left[R[p]] = R[rep]
              ELSE tree'.right[R[p]] = R[rep]
           /\ rep # Sentinel =>
                /\ tree'.parent[R[rep]] = R[p]
                /\ tree'.metadata[R[rep]] = tree.metadata[n]]_vars

\* A Delete of a node with two children has handed the deleted node's
\* metadata to a successor found deeper than the right child.
BstDeleteReplacementWitness ==
  /\ layer = "bst" /\ last.op = "delete" /\ last.kind = "deep" /\ last.flag
  /\ last.node # Sentinel /\ tree.metadata[last.ren[last.node]]
  /\ tree.root = last.ren[last.node]

\* C12: when an rbtree Delete has returned true, whether or not deleteFixup
\* ran and whether or not the child x that took the place was the sentinel,
\* the sentinel is its own parent, both its child fields are nil and it is
\* black.
RBDeleteResetsSentinel ==
  (layer = "rb" /\ last.op \in {"delete", "deleteHeld"} /\ last.flag) =>
     /\ tree.parent[Sentinel] = Sentinel
     /\ tree.left[Sentinel] = NilPtr
     /\ tree.right[Sentinel] = NilPtr
     /\ tree.metadata[Sentinel] = Black

\* A Delete has spliced out a black node whose place the sentinel took, so
\* that the sentinel's parent field was written and deleteFixup(sentinel)
\* went around its loop, and the tree is not empty afterwards.
RBDeleteResetsSentinelWitness ==
  /\ layer = "rb" /\ last.op = "delete" /\ last.flag
  /\ last.x = Sentinel /\ last.yBlack /\ last.fix.iter >= 1
  /\ tree.root # Sentinel /\ tree.parent[Sentinel] = Sentinel

\* C13: in the rbtree layer the sentinel is black in every reachable state,
\* from New on, and after every step of insertFixup and deleteFixup; a
\* recoloring aimed at the sentinel writes nothing, whatever the color.
RBSentinelAlwaysBlack ==
  layer = "rb" =>
     /\ tree.metadata[Sentinel] = Black
     /\ last.fix.nilBlack
     /\ \A c \in {Red, Black} : setColor(tree, Sentinel, c) = tree

\* A Delete has run deleteFixup from the sentinel as x and gone around the
\* loop twice, recoloring on the way.
RBSentinelAlwaysBlackWitness ==
  /\ layer = "rb" /\ last.op = "delete" /\ last.flag /\ last.yBlack
  /\ last.x = Sentinel /\ last.fix.iter >= 2 /\ last.fix.nilBlack
  /\ tree.metadata[Sentinel] = Black

\* C14: a call of MustSetMetadata, SetMetadata, RotateLeft, RotateRight,
\* SetLeft, SetParent, SetRight or Transplant on an rbtree.Tree panics, and
\* the tree (links, keys, values, colors) and Size are what they were.
RBShadowedMethodsPanic ==
  [][(layer = "rb" /\ last'.op \in Shadowed) =>
       /\ last'.kind = "panic"
       /\ tree' = tree /\ size' = size /\ amap' = amap]_vars

\* A shadowed method has been called on a tree of at least three nodes.
RBShadowedMethodsWitness ==
  /\ layer = "rb" /\ last.op = "RotateLeft" /\ last.kind = "panic"
  /\ size >= 3 /\ tree.right[tree.root] # Sentinel

\* C15: every method the package documentation of rbtree lists as unsafe
\* (MustSetMetadata, SetKey, SetLeft, SetMetadata, SetParent, SetRight,
\* SetRoot, Transplant) panics when called on an rbtree.Tree and leaves the
\* tree as it was; in particular SetKey changes no key and SetRoot does not
\* change the root.
RBDocUnsafeMethodsPanic ==
  [][(layer = "rb" /\ last'.op \in DocUnsafe) =>
       /\ last'.kind = "panic"
       /\ tree' = tree /\ size' = size]_vars

\* C16: after RotateLeft(x) on a node x of a bst whose right child is not the
\* sentinel, RotateRight on x's new parent gives back exactly the tree from
\* before the rotation (same root, same parent, left and right of every
\* node); and the same with left and right exchanged.
BstRotateRoundTrip ==
  [][(layer = "bst" /\ last'.arg \in InTree(tree)) =>
       /\ (last'.op = "rotateLeft" /\ tree.right[last'.arg] # Sentinel) =>
             RotateRight(tree', tree'.parent[last'.arg]) = tree
       /\ (last'.op = "rotateRight" /\ tree.left[last'.arg] # Sentinel) =>
             RotateLeft(tree', tree'.parent[last'.arg]) = tree]_vars

\* RotateLeft(x) has rotated a node x that was not the root and whose right
\* child had a left subtree, which is now x's right subtree.
BstRotateRoundTripWitness ==
  /\ layer = "bst" /\ last.op = "rotateLeft" /\ last.kind = "rotated"
  /\ tree.left[tree.parent[last.arg]] = last.arg
  /\ tree.parent[tree.parent[last.arg]] # Sentinel
  /\ tree.right[last.arg] # Sentinel

\* The links of t are reciprocal: every child of a node in nodes that is not
\* the sentinel has that node as its parent.
Reciprocal(t, nodes) ==
  \A n \in nodes :
     /\ t.left[n] # Sentinel => t.parent[t.left[n]] = n
     /\ t.right[n] # Sentinel => t.parent[t.right[n]] = n

\* C17: RotateLeft(x) and RotateRight(x) on a node x of a valid bst leave the
\* in-order key sequence as it was and the tree valid: IsTreeValid returns
\* nil, the links are reciprocal, the root's parent and the sentinel's parent
\* are the sentinel; only the links of x, of the child promoted, of the root
\* of the inner subtree moved and of x's former parent (or the root pointer)
\* change, and no key, value or metadata changes.
BstRotateKeepsOrder ==
  [][(layer = "bst" /\ last'.op \in {"rotateLeft", "rotateRight"}
        /\ last'.arg \in InTree(tree)) =>
       LET x == last'.arg
           c == IF last'.op = "rotateLeft" THEN tree.right[x] ELSE tree.left[x]
           inner == IF last'.op = "rotateLeft" THEN tree.left[c] ELSE tree.right[c]
           p == tree.parent[x]
           touched == {x, c, inner, p} \ {Sentinel}
       IN  /\ InOrder(tree', tree'.root) = InOrder(tree, tree.root)
           /\ BstIsTreeValid(tree').err = ""
           /\ Reciprocal(tree', InTree(tree))
           /\ tree'.parent[tree'.root] = Sentinel /\ tree'.parent[Sentinel] = Sentinel
           /\ \A n \in Ptrs \ touched :
                /\ tree'.parent[n] = tree.parent[n]
                /\ tree'.left[n] = tree.left[n]
                /\ tree'.right[n] = tree.right[n]
           /\ p # Sentinel => tree'.root = tree.root
           /\ tree.root # Sentinel
           /\ tree'.key = tree.key /\ tree'.value = tree.value
           /\ tree'.metadata = tree.metadata]_vars

\* RotateRight(x) has rotated a node x that was a right child and whose left
\* child had a right subtree, which is now x's left subtree.
BstRotateKeepsOrderWitness ==
  /\ layer = "bst" /\ last.op = "rotateRight" /\ last.kind = "rotated"
  /\ tree.right[tree.parent[last.arg]] = last.arg
  /\ tree.parent[tree.parent[last.arg]] # Sentinel
  /\ tree.right[tree.parent[tree.parent[last.arg]]] = tree.parent[last.arg]
  /\ tree.left[last.arg] # Sentinel

\* C18: RotateLeft(x) changes nothing when x is nil, the sentinel, or a node
\* whose right child is the sentinel; RotateRight(x) changes nothing when x
\* is nil, the sentinel, or a node whose left child is the sentinel.
BstRotateNoChildIsNoOp ==
  [][(layer = "bst" /\ last'.op \in {"rotateLeft", "rotateRight"}
        /\ \/ last'.arg \in {NilPtr, Sentinel}
           \/ last'.op = "rotateLeft" /\ tree.right[last'.arg] = Sentinel
           \/ last'.op = "rotateRight" /\ tree.left[last'.arg] = Sentinel) =>
       tree' = tree]_vars

\* RotateLeft(x) has been called on a node x of the tree that has a left
\* child and a parent but no right child.
BstRotateNoChildWitness ==
  /\ layer = "bst" /\ last.op = "rotateLeft" /\ last.arg \in InTree(tree)
  /\ last.kind = "noChild"
  /\ tree.right[last.arg] = Sentinel /\ tree.left[last.arg] # Sentinel
  /\ tree.parent[last.arg] # Sentinel

\* The node holding the smallest key greater than n's, the sentinel when n
\* holds the largest key; and the node holding the largest key smaller than
\* n's, the sentinel when n holds the smallest.
NextKeyOrNil(t, n) ==
  IF \E m \in InTree(t) : less(t.key[n], t.key[m]) THEN NextKeyNode(t, n) ELSE Sentinel

PrevKeyOrNil(t, n) ==
  IF \E m \in InTree(t) : less(t.key[m], t.key[n])
  THEN CHOOSE m \in InTree(t) :
         /\ less(t.key[m], t.key[n])
         /\ \A o \in InTree(t) : less(t.key[o], t.key[n]) => ~less(t.key[m], t.key[o])
  ELSE Sentinel

Reverse(s) == [i \in 1..Len(s) |-> s[Len(s) + 1 - i]]

\* C19: in a valid bst, Successor(n) is the node with the smallest key
\* greater than n's and Predecessor(n) the node with the largest key smaller
\* than n's, the sentinel when there is none; the walk by Successor from
\* Min(Root()) collects the keys in ascending order and ends at the
\* sentinel, the walk by Predecessor from Max(Root()) collects them in
\* descending order; and Predecessor(Successor(n)) is n whenever
\* Successor(n) is not the sentinel.
BstSuccessorPredecessor ==
  layer = "bst" =>
     /\ \A n \in InTree(tree) :
          /\ Successor(tree, n) = NextKeyOrNil(tree, n)
          /\ Predecessor(tree, n) = PrevKeyOrNil(tree, n)
          /\ Successor(tree, n) # Sentinel => Predecessor(tree, Successor(tree, n)) = n
     /\ last.op = "successor" => last.node = NextKeyOrNil(tree, last.arg)
     /\ last.op = "predecessor" => last.node = PrevKeyOrNil(tree, last.arg)
     /\ last.op = "walkUp" => last.seq = TreeKeys(tree)
     /\ last.op = "walkDown" => last.seq = Reverse(TreeKeys(tree))

\* Predecessor(n) has returned, for a node n without a left child, an
\* ancestor that is not n's parent, and some other node has a left child
\* with a right subtree.
BstSuccessorPredecessorWitness ==
  /\ layer = "bst" /\ last.op = "predecessor" /\ tree.left[last.arg] = Sentinel
  /\ last.node # Sentinel /\ last.node # tree.parent[last.arg]
  /\ \E m \in InTree(tree) : tree.left[m] # Sentinel /\ tree.right[tree.left[m]] # Sentinel

\* The nodes of the subtree of n: n and the nodes that have n among their
\* ancestors.
RECURSIVE HasAncestor(_, _, _, _)
HasAncestor(t, m, n, d) ==
  IF m = n THEN TRUE
  ELSE IF d = 0 \/ m = Sentinel \/ m = NilPtr THEN FALSE
  ELSE HasAncestor(t, t.parent[m], n, d - 1)

Below(t, n) == {m \in InTree(t) : HasAncestor(t, m, n, Fuel)}

\* C20: TraverseInOrder(n, visit) on a node n of the tree passes to visit
\* nodes of n's subtree only, in ascending key order and without skipping
\* one; when visit returns false for a node, that node is the last one
\* visited and TraverseInOrder returns false; when visit returns true for
\* every node of the subtree, each of them is visited exactly once and
\* TraverseInOrder returns true.
BstTraverseInOrderStops ==
  (layer = "bst" /\ last.op = "traverse") =>
     LET n == last.arg
         s == last.seq
         sub == Below(tree, n)
         seen == {s[i] : i \in 1..Len(s)}
     IN  /\ Len(s) >= 1 /\ seen \subseteq sub
         /\ \A i \in 1..(Len(s) - 1) : less(tree.key[s[i]], tree.key[s[i + 1]])
         /\ seen = {m \in sub : ~less(tree.key[s[Len(s)]], tree.key[m])}
         /\ \A i \in 1..(Len(s) - 1) : s[i] \in last.set
         /\ last.flag <=> s[Len(s)] \in last.set
         /\ last.flag => seen = sub /\ Len(s) = Cardinality(sub)
         /\ sub \subseteq last.set => last.flag

\* TraverseInOrder(n, visit) has returned false for a node n that is not the
\* root, after visit rejected the second node, in n's left subtree, with
\* nodes of the subtree left unvisited that visit would have accepted.
BstTraverseInOrderWitness ==
  /\ layer = "bst" /\ last.op = "traverse" /\ ~last.flag
  /\ last.arg # tree.root /\ Len(last.seq) = 2
  /\ less(tree.key[last.seq[2]], tree.key[last.arg])
  /\ last.arg \in last.set

\* C21: for every node n of the tree, the root or not, Min(n) is the node
\* with the smallest key and Max(n) the node with the largest key among the
\* nodes of the subtree rooted at n; it is n itself when n has no left,
\* respectively no right, child.
BstMinMaxOfSubtree ==
  (layer = "bst" /\ last.op \in {"min", "max"}) =>
     LET n == last.arg
         sub == Below(tree, n)
     IN  /\ last.node \in sub
         /\ last.op = "min" =>
              /\ \A m \in sub : ~less(tree.key[m], tree.key[last.node])
              /\ tree.left[n] = Sentinel => last.node = n
         /\ last.op = "max" =>
              /\ \A m \in sub : ~less(tree.key[last.node], tree.key[m])
              /\ tree.right[n] = Sentinel => last.node = n

\* Max(n) has returned, for a node n that is not the root, a node two steps
\* below n, while the tree holds a larger key outside n's subtree.
BstMinMaxWitness ==
  /\ layer = "bst" /\ last.op = "max" /\ last.arg # tree.root
  /\ tree.parent[last.node] # last.arg /\ last.node # last.arg
  /\ \E m \in InTree(tree) : less(tree.key[last.node], tree.key[m])

\* C22: for every key k and every tree, Floor(k) returns (node, true) with
\* node holding the largest stored key not greater than k, and Ceiling(k)
\* returns (node, true) with node holding the smallest stored key not less
\* than k (the node holding k itself when k is stored); found is false
\* exactly when no stored key qualifies: Floor below the minimum, Ceiling
\* above the maximum, or the tree empty.
BstFloorCeiling ==
  (layer = "bst" /\ last.op \in {"floor", "ceiling"}) =>
     LET k == last.key
         stored == {tree.key[m] : m \in InTree(tree)}
         fits == IF last.op = "floor" THEN {j \in stored : j <= k} ELSE {j \in stored : j >= k}
     IN  /\ last.flag <=> fits # {}
         /\ last.flag =>
              /\ last.node \in InTree(tree)
              /\ tree.key[last.node] \in fits
              /\ \A j \in fits : IF last.op = "floor" THEN j <= tree.key[last.node]
                                   ELSE j >= tree.key[last.node]
              /\ k \in stored => tree.key[last.node] = k

\* Floor(k) has found, for a key k that is not stored, a node that is
\* neither the root nor the minimum nor the maximum of a tree of four nodes.
BstFloorCeilingWitness ==
  /\ layer = "bst" /\ last.op = "floor" /\ last.flag
  /\ Cardinality(InTree(tree)) >= 3
  /\ tree.key[last.node] # last.key /\ last.node # tree.root
  /\ last.node # Min(tree, tree.root) /\ last.node # Max(tree, tree.root)

\* ---------------------------------------------- recoloring an rbtree.Tree
\* A client that builds a red-black tree, recolors nodes of it through the
\* embedded bst.Tree (tree.Tree.MustSetMetadata(n, c), the sentinel
\* included) and asks IsTreeValid; it inserts and deletes only while
\* IsTreeValid accepts the tree.
InitColor ==
  /\ layer = "rb"
  /\ inputs = Pairs(BstKeys, {1})
  /\ tree = RBNew
  /\ size = 0
  /\ held = NilPtr
  /\ last = NoCall
  /\ amap = [k \in Keys |-> 0]
  /\ panicked = FALSE

\* rbtree: tree.Tree.MustSetMetadata(n, c)
RBPaintOp(n, c) ==
  /\ layer = "rb" /\ ~panicked
  /\ n \in InTree(tree) \cup {Sentinel}
  /\ Return(MustSetMetadata(tree, n, c), IdRen, [NoCall EXCEPT !.op = "paint"])
  /\ UNCHANGED <<layer, inputs, size, amap, panicked>>

\* rbtree: err := tree.IsTreeValid()
RBValidOp(r) ==
  /\ layer = "rb" /\ ~panicked
  /\ Return(tree, IdRen, [NoCall EXCEPT !.op = "valid", !.kind = r.err, !.key = r.key])
  /\ UNCHANGED <<layer, inputs, size, amap, panicked>>

NextColor ==
  \/ RBIsTreeValid(tree).err = "" /\ \E p \in inputs : RBInsertOp(p[1], p[2])
  \/ RBIsTreeValid(tree).err = "" /\ \E k \in InputKeys : RBDeleteOp(k)
  \/ \E n \in Nodes, c \in {Red, Black} : RBPaintOp(n, c)
  \/ RBValidOp(RBIsTreeValid(tree))

SpecColor == InitColor /\ [][NextColor]_vars

\* The black counts of the paths from n down to the sentinel, acc black nodes
\* having been passed above n.
RECURSIVE PathCounts(_, _, _, _)
PathCounts(t, n, acc, d) ==
  IF n = Sentinel \/ d = 0 THEN {acc}
  ELSE PathCounts(t, t.left[n], IF t.metadata[n] = Black THEN acc + 1 ELSE acc, d - 1)
       \cup PathCounts(t, t.right[n], IF t.metadata[n] = Black THEN acc + 1 ELSE acc, d - 1)

\* The coloring of t breaks a red-black rule.
ColoringBroken(t) ==
  \/ t.root # Sentinel /\ t.metadata[t.root] = Red
  \/ t.metadata[Sentinel] # Black
  \/ \E n \in InTree(t) : t.metadata[n] = Red
        /\ \E c \in {t.left[n], t.right[n]} \ {Sentinel} : t.metadata[c] = Red
  \/ Cardinality(PathCounts(t, t.root, 0, Fuel)) > 1

\* C23: on a tree whose BST structure is valid, rbtree's IsTreeValid returns
\* an error exactly when the coloring breaks a rule (red root, sentinel not
\* black, a red node with a red child, or two root-to-sentinel paths with
\* different black counts), and no error for every coloring that breaks none.
RBIsTreeValidColoring ==
  (last.op = "valid" /\ BstIsTreeValid(tree).err = "")
    => ((last.kind # "") <=> ColoringBroken(tree))

\* IsTreeValid has rejected a recolored tree whose only fault is a black
\* count mismatch.
RBIsTreeValidColoringWitness ==
  /\ last.op = "valid" /\ last.kind = "black count mismatch"
  /\ Cardinality(InTree(tree)) >= 4

\* The leaf and one-child nodes of t whose black count differs from that of
\* the first such node in key order.
Mismatched(t) ==
  LET s == InOrder(t, t.root)
      counted == {i \in 1..Len(s) : IsLeaf(t, s[i]) \/ IsUnary(t, s[i])}
  IN  {s[i] : i \in {i \in counted : \E j \in counted :
                       /\ \A h \in counted : j <= h
                       /\ BlackCount(t, s[i]) # BlackCount(t, s[j])}}

\* C24: when rbtree's IsTreeValid finds a black-height mismatch, the error
\* names the key of a leaf or one-child node whose path has a black count
\* different from that of the first such path.
RBMismatchNamesNode ==
  (last.op = "valid" /\ last.kind = "black count mismatch")
    => last.key \in {tree.key[n] : n \in Mismatched(tree)}

\* ------------------------------------------------- corrupting a bst.Tree
\* A client inside package bst that builds a tree by Insert, then overwrites
\* one field (the parent of the sentinel, of the root or of another node, or
\* the key of a node) and asks IsTreeValid, as TestTree_IsTreeValid does.
Built == last.op \in {"new", "insert"}

\* bst: n.parent = p (nil only for the sentinel and the root)
BstBreakParentOp(n, p) ==
  /\ layer = "bst" /\ ~panicked /\ Built
  /\ n \in InTree(tree) \cup {Sentinel}
  /\ p \in InTree(tree) \cup {Sentinel, NilPtr}
  /\ p = NilPtr => n \in {Sentinel, tree.root}
  /\ p # tree.parent[n]
  /\ Return([tree EXCEPT !.parent[n] = p], IdRen,
            [NoCall EXCEPT !.op = "break", !.kind = "parent", !.arg = n])
  /\ UNCHANGED <<layer, inputs, size, amap, panicked>>

\* bst: n.key = k
BstBreakKeyOp(n, k) ==
  /\ layer = "bst" /\ ~panicked /\ Built
  /\ n \in InTree(tree)
  /\ k # tree.key[n]
  /\ Return([tree EXCEPT !.key[n] = k], IdRen,
            [NoCall EXCEPT !.op = "break", !.kind = "key", !.arg = n])
  /\ UNCHANGED <<layer, inputs, size, amap, panicked>>

\* bst: err := tree.IsTreeValid()
BstValidOp(r) ==
  /\ layer = "bst" /\ ~panicked /\ last.op # "valid"
  /\ Return(tree, IdRen, [NoCall EXCEPT !.op = "valid", !.kind = r.err, !.key = r.key])
  /\ UNCHANGED <<layer, inputs, size, amap, panicked>>

NextBreak ==
  \/ Built /\ \E p \in inputs : BstInsertOp(p[1], p[2])
  \/ \E n \in Nodes, p \in Ptrs : BstBreakParentOp(n, p)
  \/ \E n \in Nodes, k \in QueryKeys : BstBreakKeyOp(n, k)
  \/ BstValidOp(BstIsTreeValid(tree))

SpecBreak == InitBst /\ [][NextBreak]_vars

\* The nodes of t that follow, in order, a node whose key is not smaller.
OutOfOrder(t) ==
  LET s == InOrder(t, t.root)
  IN  {s[i] : i \in {i \in 2..Len(s) : t.key[s[i - 1]] >= t.key[s[i]]}}

\* The nodes of t whose parent is a node that has them as neither child.
Orphaned(t) ==
  {n \in InTree(t) : t.parent[n] # Sentinel
                       /\ n # t.left[t.parent[n]] /\ n # t.right[t.parent[n]]}

\* C25: bst's IsTreeValid returns an error when the sentinel's parent is not
\* the sentinel, when the root's parent is not the sentinel, when two
\* consecutive in-order keys are not strictly increasing, and when a node
\* with a non-sentinel parent is neither child of that parent; a traversal
\* error names the key of such an offending node.
BstIsTreeValidDetects ==
  last.op = "valid" =>
    /\ tree.parent[Sentinel] # Sentinel => last.kind # ""
    /\ tree.parent[tree.root] # Sentinel => last.kind # ""
    /\ OutOfOrder(tree) # {} => last.kind # ""
    /\ Orphaned(tree) # {} => last.kind # ""
    /\ last.kind = "out of order keys" => last.key \in {tree.key[n] : n \in OutOfOrder(tree)}
    /\ last.kind = "parent/child mismatch" => last.key \in {tree.key[n] : n \in Orphaned(tree)}

\* IsTreeValid has reported a node whose parent pointer was redirected to a
\* node that does not have it as a child.
BstIsTreeValidDetectsWitness ==
  /\ last.op = "valid" /\ last.kind = "parent/child mismatch"
  /\ Orphaned(tree) # {} /\ OutOfOrder(tree) = {}
  /\ tree.parent[Sentinel] = Sentinel /\ tree.parent[tree.root] = Sentinel

\* ------------------------------------------------- the package's examples
\* The examples insert the keys 0..10.  A key k of an example is ExKey(k)
\* here: key 0 stands for the zero key of an unused slot, and less, the only
\* operation the trees apply to keys, is kept by the shift.
ExKey(k) == k + 1

ExKeys == {ExKey(k) : k \in 0..10}

\* ExampleTree_Insert of bst: the order of its Insert calls.
ExBstOrder == <<3, 1, 5, 0, 2, 4, 7, 6, 9, 8, 10>>

\* ExampleTree_Delete of rbtree: the keys whose node Insert returned is kept.
ExKept == {1, 3, 5, 7, 9}

InitExample ==
  /\ layer \in {"bst", "rb"}
  /\ inputs = Pairs(ExKeys, {1})
  /\ tree = IF layer = "rb" THEN RBNew ELSE New(FALSE)
  /\ size = 0
  /\ held = NilPtr
  /\ last = NoCall
  /\ amap = [k \in Keys |-> 0]
  /\ panicked = FALSE

\* The kept nodes (pairs of the example's key and the node) after a renaming.
Kept(ren, pairs) == {<<h[1], ren[h[2]]>> : h \in pairs}

ExRBInserted(k, r, ren) ==
  /\ Return(r.t, ren,
            [NoCall EXCEPT !.op = "insert", !.key = ExKey(k), !.value = 1, !.node = r.node,
                           !.flag = r.flag, !.fix = r.fix,
                           !.set = Kept(ren, last.set \cup (IF k \in ExKept THEN {<<k, r.node>>} ELSE {}))])
  /\ size' = r.size
  /\ panicked' = (r.fix.panic \/ r.fix.cut)

ExRBInsertCall(k, r) == ExRBInserted(k, r, Renaming(r.t, held))

\* rbtree: nodek, _ := tree.Insert(k, ...), the keys 0..10 in ascending order
ExRBInsertOp(k) ==
  /\ layer = "rb" /\ ~panicked
  /\ {tree.key[n] : n \in InTree(tree)} = {ExKey(j) : j \in 0..(k - 1)}
  /\ ExRBInsertCall(k, RBInsert(tree, size, NewId(tree, held, ExKey(k)), ExKey(k), 1))
  /\ UNCHANGED <<layer, inputs, amap>>

ExRBDeleted(h, r, ren) ==
  /\ Return(r.t, ren,
            [NoCall EXCEPT !.op = "delete", !.key = tree.key[h[2]], !.arg = h[2], !.flag = r.flag,
                           !.y = r.y, !.x = r.x, !.yBlack = r.yBlack, !.fix = r.fix,
                           !.seq = Append(last.seq, h[1]),
                           !.set = Kept(ren, last.set \ {h})])
  /\ size' = r.size
  /\ panicked' = (r.fix.panic \/ r.fix.cut)

ExRBDeleteCall(h, r) == ExRBDeleted(h, r, Renaming(r.t, held))

\* rbtree: tree.Delete(nodek), once the eleven keys are in, for a kept node
\* not deleted yet
ExRBDeleteOp(h) ==
  /\ layer = "rb" /\ ~panicked
  /\ last.op = "delete" \/ Cardinality(InTree(tree)) = 11
  /\ ExRBDeleteCall(h, RBDelete(tree, size, h[2]))
  /\ UNCHANGED <<layer, inputs, amap>>

\* bst: tree.Insert(k, ...), the calls of the example in their order, any of
\* them left out
ExBstInsertOp(i) ==
  /\ layer = "bst" /\ ~panicked
  /\ {tree.key[n] : n \in InTree(tree)} \subseteq {ExKey(ExBstOrder[j]) : j \in 1..(i - 1)}
  /\ BstInserted(ExKey(ExBstOrder[i]), 1,
                 Insert(tree, NewId(tree, held, ExKey(ExBstOrder[i])), ExKey(ExBstOrder[i]), 1))
  /\ UNCHANGED <<layer, inputs, size, amap, panicked>>

NextExample ==
  \/ \E k \in 0..10 : ExRBInsertOp(k)
  \/ \E h \in last.set : ExRBDeleteOp(h)
  \/ \E i \in 1..11 : ExBstInsertOp(i)

SpecExample == InitExample /\ [][NextExample]_vars

\* The node of t holding the example's key k (the sentinel when none does).
At(t, k) == Search(t, ExKey(k)).node

\* In t the node holding k has the nodes holding l and r as its left and
\* right child; -1 stands for no child.
Shape(t, k, l, r) ==
  /\ At(t, k) # Sentinel
  /\ t.left[At(t, k)] = (IF l = -1 THEN Sentinel ELSE At(t, l))
  /\ t.right[At(t, k)] = (IF r = -1 THEN Sentinel ELSE At(t, r))

\* The number of edges on the longest path from n down to a leaf.
RECURSIVE HeightF(_, _, _)
HeightF(t, n, d) ==
  IF n = Sentinel \/ n = NilPtr \/ d = 0 THEN -1
  ELSE LET hl == HeightF(t, t.left[n], d - 1)
           hr == HeightF(t, t.right[n], d - 1)
       IN  1 + (IF hl > hr THEN hl ELSE hr)

\* The example's keys held by red nodes of t.
RedKeys(t) == {k \in 0..10 : At(t, k) # Sentinel /\ t.metadata[At(t, k)] = Red}

ExBstInsertResult ==
  (layer = "bst" /\ Cardinality(InTree(tree)) = 11) =>
    /\ tree.root = At(tree, 3) /\ tree.parent[tree.root] = Sentinel
    /\ Shape(tree, 3, 1, 5) /\ Shape(tree, 1, 0, 2) /\ Shape(tree, 5, 4, 7)
    /\ Shape(tree, 7, 6, 9) /\ Shape(tree, 9, 8, 10)
    /\ \A k \in {0, 2, 4, 6, 8, 10} : Shape(tree, k, -1, -1)

\* The eleven insertions of the example have all created a node.
ExBstInsertWitness ==
  /\ layer = "bst" /\ Cardinality(InTree(tree)) = 11
  /\ last.op = "insert" /\ last.key = ExKey(10) /\ last.kind = "new"

\* C29: a tree New has just returned is empty and valid: its root is the
\* sentinel, the sentinel's parent is the sentinel and IsTreeValid returns
\* nil, at both layers; a red-black tree also has size 0 and a black
\* sentinel.
NewTreeEmptyValid ==
  last.op = "new" =>
    /\ IsNil(tree.root)
    /\ IsNil(tree.parent[tree.root])
    /\ tree.parent[Sentinel] = Sentinel
    /\ layer = "bst" => BstIsTreeValid(tree).err = ""
    /\ layer = "rb" => RBIsTreeValid(tree).err = "" /\ size = 0 /\ tree.metadata[Sentinel] = Black

\* A red-black tree on which no method has been called yet.
NewTreeWitness ==
  /\ last.op = "new" /\ layer = "rb" /\ InTree(tree) = {} /\ ~panicked

\* --------------------------------------------- the transplants of Delete
\* Delete(n) of bst taken one statement at a time up to its last call of
\* transplant.  The first call Delete(n) makes, as (toReplace, replacement):
FirstTransplant(t, n) ==
  IF t.left[n] = Sentinel THEN [old |-> n, new |-> t.right[n], kind |-> "right"]
  ELSE IF t.right[n] = Sentinel THEN [old |-> n, new |-> t.left[n], kind |-> "left"]
  ELSE IF t.parent[Min(t, t.right[n])] # n
  THEN [old |-> Min(t, t.right[n]), new |-> t.right[Min(t, t.right[n])], kind |-> "successor"]
  ELSE [old |-> n, new |-> Min(t, t.right[n]), kind |-> "node"]

BstTransplanted(n, c, second) ==
  /\ Return(transplant(tree, c.old, c.new), IdRen,
            [NoCall EXCEPT !.op = "transplant", !.arg = c.old, !.node = c.new, !.kind = c.kind,
                           !.y = n, !.flag = second])
  /\ UNCHANGED <<layer, inputs, size, amap, panicked>>

\* bst Delete(n): t.transplant(...), the first call
BstTransplantOp(n) ==
  /\ layer = "bst" /\ ~panicked /\ Built
  /\ n \in InTree(tree)
  /\ BstTransplanted(n, FirstTransplant(tree, n), FALSE)

\* bst Delete(n): successor.right = n.right; successor.right.parent = successor
BstHangOp(n, successor) ==
  /\ layer = "bst" /\ ~panicked
  /\ last.op = "transplant" /\ last.kind = "successor"
  /\ n = last.y /\ successor = last.arg
  /\ Return([tree EXCEPT !.right[successor] = tree.right[n],
                         !.parent[tree.right[n]] = successor], IdRen,
            [NoCall EXCEPT !.op = "hang", !.y = n, !.node = successor])
  /\ UNCHANGED <<layer, inputs, size, amap, panicked>>

\* bst Delete(n): t.transplant(n, successor) after the successor was moved
BstSecondTransplantOp(n, successor) ==
  /\ layer = "bst" /\ ~panicked
  /\ last.op = "hang" /\ n = last.y /\ successor = last.node
  /\ BstTransplanted(n, [old |-> n, new |-> successor, kind |-> "node"], TRUE)

NextTransplant ==
  \/ Built /\ \E p \in inputs : BstInsertOp(p[1], p[2])
  \/ \E n \in Nodes : BstTransplantOp(n)
  \/ \E n, successor \in Nodes : BstHangOp(n, successor)
  \/ \E n, successor \in Nodes : BstSecondTransplantOp(n, successor)

SpecTransplant == InitBst /\ [][NextTransplant]_vars

\* What transplant(old, new) may change between the heaps t and u: the slot
\* of t that pointed to old, which then holds new, and the parent of new.
TransplantFrame(t, u, old, new) ==
  /\ u.root # t.root => t.parent[old] = Sentinel /\ t.root = old
  /\ \A m \in Ptrs : u.left[m] # t.left[m] =>
        m = t.parent[old] /\ m # Sentinel /\ t.left[m] = old
  /\ \A m \in Ptrs : u.right[m] # t.right[m] =>
        m = t.parent[old] /\ m # Sentinel /\ t.right[m] = old
  /\ \A m \in Ptrs : u.parent[m] # t.parent[m] => m = new /\ new # Sentinel
  /\ IF t.parent[old] = Sentinel THEN u.root = new
     ELSE new \in {u.left[t.parent[old]], u.right[t.parent[old]]}
  /\ new # Sentinel => u.parent[new] = t.parent[old]
  /\ \A m \in {old, new} : u.left[m] = t.left[m] /\ u.right[m] = t.right[m]
  /\ u.parent[old] = t.parent[old]
  /\ u.parent[Sentinel] = t.parent[Sentinel]
  /\ u.key = t.key /\ u.value = t.value /\ u.metadata = t.metadata

\* C30: transplant(old, new) changes only the slot that pointed to old (the
\* root pointer when old's parent is the sentinel, otherwise the left or
\* right field of old's parent) and, when new is not the sentinel, the
\* parent of new; the children of old and of new, the parent of old and the
\* parent of the sentinel stay as they were.
BstTransplantFrame ==
  [][last'.op = "transplant" => TransplantFrame(tree, tree', last'.arg, last'.node)]_vars

\* Delete's second transplant has put the successor, a node from deeper in
\* the tree, into the place of a node with two children.
BstTransplantWitness ==
  /\ last.op = "transplant" /\ last.flag /\ last.node # Sentinel
  /\ tree.parent[last.node] = tree.parent[last.arg]
  /\ tree.right[last.node] = tree.right[last.arg]

\* ---------------------------------------- the fixup loops, one iteration
\* at a time.  Insert and Delete of rbtree are taken statement by statement:
\* the call starts (the bst insertion, respectively the splice), the loop of
\* insertFixup or deleteFixup runs one iteration per step, and the call ends
\* (final coloring, resetSentinel, size, return).  While a call is running
\* last.op is "fixing", tree is the heap as the loop sees it and last.fix the
\* other locals of the loop (x holds z for insertFixup).
InitFix ==
  /\ layer = "rb"
  /\ inputs \in {Pairs(Keys, {1}), Pairs(BstKeys, {1})}
  /\ tree = RBNew
  /\ size = 0
  /\ held = NilPtr
  /\ last = NoCall
  /\ amap = [k \in Keys |-> 0]
  /\ panicked = FALSE

Fixing(kinds) == last.op = "fixing" /\ last.kind \in kinds

\* The locals of the loops.
DeleteLoopState == [last.fix EXCEPT !.t = tree]

InsertLoopState ==
  [t |-> tree, z |-> last.fix.x, rot |-> last.fix.rot, iter |-> last.fix.iter,
   cases |-> last.fix.cases, panic |-> last.fix.panic, cut |-> last.fix.cut,
   nilBlack |-> last.fix.nilBlack, seen |-> last.fix.seen]

\* for x != t.Root() && t.isBlack(x)
DeleteLoopGuard(s) == s.x # s.t.root /\ isBlack(s.t, s.x)

\* for t.isRed(t.Parent(z))
InsertLoopGuard(s) == isRed(s.t, s.t.parent[s.z])

\* A step inside a call: the heap and the locals change, nothing returns.
Inside(t, fix) ==
  /\ tree' = t
  /\ last' = [last EXCEPT !.fix = fix]
  /\ panicked' = (fix.panic \/ fix.cut)
  /\ UNCHANGED <<layer, inputs, size, held, amap>>

\* rbtree Insert of a new key, up to the call of insertFixup.
FixInsertStarted(k, r) ==
  /\ tree' = setColor(r.t, r.node, Red)
  /\ last' = [NoCall EXCEPT !.op = "fixing", !.kind = "insert", !.key = k, !.value = 1,
                            !.node = r.node, !.fix = [NoFix(0) EXCEPT !.x = r.node]]
  /\ UNCHANGED <<layer, inputs, size, held, amap, panicked>>

FixInsertStart(k) ==
  /\ layer = "rb" /\ ~panicked /\ last.op # "fixing"
  /\ ~Search(tree, k).found /\ FreeIds(tree, held) # {}
  /\ AscendingInsert(tree, k)
  /\ FixInsertStarted(k, TreeInsert(tree, NewId(tree, held, k), k, 1))

InsertStepped(s) ==
  Inside(s.t, [t |-> 0, x |-> s.z, rot |-> s.rot, iter |-> s.iter, cases |-> s.cases,
               panic |-> s.panic, cut |-> s.cut, nilBlack |-> s.nilBlack, seen |-> s.seen])

\* One iteration of the loop of insertFixup.
FixInsertStep ==
  /\ Fixing({"insert"}) /\ ~panicked
  /\ last.fix.iter < LoopFuel
  /\ tree.parent[last.fix.x] # NilPtr
  /\ InsertLoopGuard(InsertLoopState)
  /\ \E s \in {IF tree.parent[last.fix.x] = tree.left[tree.parent[tree.parent[last.fix.x]]]
                THEN SeeSentinel(InsertFixupLeft(InsertLoopState))
                ELSE SeeSentinel(InsertFixupRight(InsertLoopState))} : InsertStepped(s)

FixInsertEnded(fix) ==
  /\ \E ren \in {Renaming(fix.t, held)} : Return(fix.t, ren,
            [NoCall EXCEPT !.op = "insert", !.kind = "new", !.key = last.key, !.value = last.value,
                           !.node = last.node, !.flag = TRUE, !.fix = [fix EXCEPT !.t = 0]])
  /\ size' = size + 1
  /\ amap' = [amap EXCEPT ![last.key] = last.value]
  /\ UNCHANGED <<layer, inputs, panicked>>

\* The loop of insertFixup is left: the root is colored black, Insert returns.
FixInsertEnd ==
  /\ Fixing({"insert"}) /\ ~panicked
  /\ tree.parent[last.fix.x] # NilPtr
  /\ ~InsertLoopGuard(InsertLoopState)
  /\ \E fix \in {InsertFixupEnd(InsertLoopState)} : FixInsertEnded(fix)

\* rbtree Delete(n) up to the test of y's color: the splice.
FixDeleteStarted(n, sp) ==
  /\ tree' = sp.t
  /\ last' = [NoCall EXCEPT !.op = "fixing",
                            !.kind = IF isBlack(sp.t, sp.y) THEN "delete" ELSE "skip",
                            !.key = tree.key[n], !.arg = n, !.y = sp.y, !.x = sp.x,
                            !.yBlack = isBlack(sp.t, sp.y),
                            !.fix = [NoFix(0) EXCEPT !.x = sp.x]]
  /\ UNCHANGED <<layer, inputs, size, held, amap, panicked>>

FixDeleteStart(k) ==
  /\ layer = "rb" /\ ~panicked /\ last.op # "fixing"
  /\ Search(tree, k).found
  /\ AscendingDelete(tree, k)
  /\ FixDeleteStarted(Search(tree, k).node, RBSplice(tree, Search(tree, k).node))

DeleteStepped(s) == Inside(s.t, [s EXCEPT !.t = 0])

\* One iteration of the loop of deleteFixup.
FixDeleteStep ==
  /\ Fixing({"delete"}) /\ ~panicked
  /\ last.fix.iter < LoopFuel
  /\ DeleteLoopGuard(DeleteLoopState)
  /\ \E s \in {IF last.fix.x = tree.left[tree.parent[last.fix.x]]
                THEN SeeSentinel(DeleteFixupLeft(DeleteLoopState))
                ELSE SeeSentinel(DeleteFixupRight(DeleteLoopState))} : DeleteStepped(s)

FixDeleteEnded(fix, t) ==
  /\ \E ren \in {Renaming(t, held)} : Return(t, ren,
            [NoCall EXCEPT !.op = "delete", !.kind = "stepped", !.key = last.key, !.arg = last.arg,
                           !.flag = TRUE, !.y = last.y, !.x = last.x, !.yBlack = last.yBlack,
                           !.fix = [fix EXCEPT !.t = 0]])
  /\ size' = size - 1
  /\ amap' = [amap EXCEPT ![last.key] = 0]
  /\ UNCHANGED <<layer, inputs, panicked>>

FixDeleteEndedWith(fix) == \E t \in {resetSentinel(fix.t)} : FixDeleteEnded(fix, t)

\* The loop of deleteFixup is left, or y was red: x is colored black in the
\* first case, the sentinel is reset, Delete returns.
FixDeleteEnd ==
  /\ Fixing({"delete", "skip"}) /\ ~panicked
  /\ last.kind = "delete" => ~DeleteLoopGuard(DeleteLoopState)
  /\ \E fix \in {IF last.kind = "delete" THEN DeleteFixupEnd(DeleteLoopState) ELSE DeleteLoopState} :
       FixDeleteEndedWith(fix)

NextFix ==
  \/ \E k \in InputKeys : FixInsertStart(k)
  \/ FixInsertStep
  \/ FixInsertEnd
  \/ \E k \in InputKeys : FixDeleteStart(k)
  \/ FixDeleteStep
  \/ FixDeleteEnd

SpecFix == InitFix /\ [][NextFix]_vars

\* A call that has started keeps running: the program is sequential.
SpecFixLive ==
  SpecFix /\ WF_vars(FixInsertStep) /\ WF_vars(FixInsertEnd)
          /\ WF_vars(FixDeleteStep) /\ WF_vars(FixDeleteEnd)

\* C31: the loop of deleteFixup that Delete starts terminates: an iteration
\* either ends the loop (x is the root or red afterwards) or is case 2 alone
\* and moves x to its parent, one level closer to the root; so every Delete
\* that has started returns.
RBDeleteFixupTerminates ==
  /\ [][(Fixing({"delete"}) /\ last'.op = "fixing") =>
          \/ ~DeleteLoopGuard([x |-> last'.fix.x, t |-> tree'])
          \/ /\ last'.fix.x = tree.parent[last.fix.x]
             /\ last'.fix.cases \ last.fix.cases \subseteq {2}
             /\ last'.fix.rot = last.fix.rot
             /\ DepthF(tree', last'.fix.x, Fuel) = DepthF(tree, tree.parent[last.fix.x], Fuel)]_vars
  /\ (Fixing({"delete", "skip"}) ~> (last.op = "delete" /\ last.flag))

\* A Delete has returned after its loop ran twice.
RBDeleteFixupTerminatesWitness ==
  /\ last.op = "delete" /\ last.kind = "stepped" /\ last.yBlack
  /\ last.fix.iter >= 2 /\ ~panicked

RBRotationBound ==
  (layer = "rb" /\ ~panicked) =>
     /\ last.op = "insert" => last.fix.rot <= 2
     /\ last.op = "delete" => last.fix.rot <= 3

\* A Delete has rotated three times (cases 1, 3 and 4).
RBRotationBoundWitness ==
  /\ layer = "rb" /\ ~panicked /\ last.op = "delete" /\ last.flag
  /\ last.fix.rot = 3 /\ {1, 3, 4} \subseteq last.fix.cases

\* ------------------------------------------------ Delete of a red node y
\* C34: when the node y spliced out by rbtree Delete(n) is red, no fixup
\* runs: no rotation, every remaining node keeps its color, and the tree
\* differs only by the splice of y (its child x takes its place) and, when
\* y is not n, by y's key and value copied into n.
RBDeleteRedFrame ==
  [][(layer = "rb" /\ last'.op = "delete" /\ last'.flag /\ last'.arg \in InTree(tree)
        /\ ~last'.yBlack) =>
       LET n == last'.arg
           y == last'.y
           x == last'.x
           rest == InTree(tree) \ {y}
           sub(p) == IF p = y THEN x ELSE p
       IN  /\ y = (IF tree.left[n] = Sentinel \/ tree.right[n] = Sentinel THEN n
                   ELSE NextKeyNode(tree, n))
           /\ x = (IF tree.left[y] # Sentinel THEN tree.left[y] ELSE tree.right[y])
           /\ tree.metadata[y] = Red
           /\ last'.fix.rot = 0 /\ last'.fix.iter = 0 /\ last'.fix.cases = {}
           /\ InTree(tree') = {R[m] : m \in rest}
           /\ tree'.root = R[sub(tree.root)]
           /\ \A m \in rest :
                /\ tree'.metadata[R[m]] = tree.metadata[m]
                /\ tree'.left[R[m]] = R[sub(tree.left[m])]
                /\ tree'.right[R[m]] = R[sub(tree.right[m])]
                /\ tree'.parent[R[m]] = R[IF tree.parent[m] = y THEN tree.parent[y]
                                           ELSE tree.parent[m]]
                /\ tree'.key[R[m]] = (IF m = n /\ y # n THEN tree.key[y] ELSE tree.key[m])
                /\ tree'.value[R[m]] = (IF m = n /\ y # n THEN tree.value[y]
                                         ELSE tree.value[m])]_vars

\* A Delete of a node with two children has spliced out its red successor.
RBDeleteRedFrameWitness ==
  /\ layer = "rb" /\ last.op = "delete" /\ last.flag /\ last.kind = "two"
  /\ ~last.yBlack /\ last.y # last.arg
  /\ Cardinality(InTree(tree)) >= 4

\* ------------------------------------------ IsTreeValid and parent pointers
\* C35: bst's IsTreeValid returns no error only if every node of the tree
\* has as parent the node that holds it as left or right child, the root
\* alone having the sentinel as parent; a node other than the root whose
\* parent was set to the sentinel is reported.
BstIsTreeValidReciprocal ==
  (layer = "bst" /\ last.op = "valid" /\ last.kind = "") =>
     \A n \in InTree(tree) :
        IF n = tree.root THEN tree.parent[n] = Sentinel
        ELSE /\ tree.parent[n] \in InTree(tree)
             /\ n = tree.left[tree.parent[n]] \/ n = tree.right[tree.parent[n]]

\* --------------------------------------------- the structure of a bst.Tree
\* The places of t that hold n: the pairs of a node of the tree and a side.
Holders(t, n) ==
  {h \in InTree(t) \X {"left", "right"} :
     (IF h[2] = "left" THEN t.left[h[1]] ELSE t.right[h[1]]) = n}

SentinelFields(t) ==
  <<t.key[Sentinel], t.value[Sentinel], t.parent[Sentinel], t.left[Sentinel],
    t.right[Sentinel], t.metadata[Sentinel]>>

BstStructured(t) ==
  /\ t.parent[Sentinel] = Sentinel
  /\ t.parent[t.root] = Sentinel
  /\ Holders(t, t.root) = {}
  /\ \A n \in InTree(t) \ {t.root} :
        /\ Cardinality(Holders(t, n)) = 1
        /\ \A h \in Holders(t, n) : h[1] = t.parent[n]
  /\ LET s == IF t.root = Sentinel THEN <<>> ELSE InOrder(t, t.root)
     IN  /\ Len(s) = Cardinality(InTree(t))
         /\ \A i \in 2..Len(s) : t.key[s[i - 1]] < t.key[s[i]]

\* C36: after any sequence of bst Insert, Delete of a node of the tree,
\* RotateLeft and RotateRight the sentinel and the root have the sentinel as
\* parent, every other node is held exactly once, by its parent, as left or
\* as right child, the in-order keys increase strictly, and no call writes a
\* field of the sentinel.
BstStructureKept ==
  /\ [](layer = "bst" => BstStructured(tree))
  /\ [][layer = "bst" => SentinelFields(tree') = SentinelFields(tree)]_vars

\* The root, a node with two children whose successor was not its right
\* child, has been deleted: the successor is the root of the three nodes left.
BstStructureKeptWitness ==
  /\ layer = "bst" /\ last.op = "delete" /\ last.kind = "deep" /\ last.flag
  /\ Cardinality(InTree(tree)) = 3
  /\ tree.left[tree.root] # Sentinel /\ tree.right[tree.root] # Sentinel

\* ------------------------------------------------------------- the height
\* The number of nodes on the shortest path from n down to a sentinel
\* position.
RECURSIVE ShallowF(_, _, _)
ShallowF(t, n, d) ==
  IF n = Sentinel \/ n = NilPtr \/ d = 0 THEN 0
  ELSE LET sl == ShallowF(t, t.left[n], d - 1)
           sr == ShallowF(t, t.right[n], d - 1)
       IN  1 + (IF sl < sr THEN sl ELSE sr)

\* The number of nodes on the longest path from the root down to a leaf.
HeightInNodes(t) == HeightF(t, t.root, Fuel) + 1

BstTraverseRootOp(accept) ==
  /\ layer = "bst" /\ ~panicked
  /\ Return(tree, IdRen,
            [NoCall EXCEPT !.op = "traverse", !.arg = tree.root, !.set = accept,
                           !.seq = Visited(tree, tree.root, accept),
                           !.flag = TraverseInOrder(tree, tree.root, accept)])
  /\ UNCHANGED <<layer, inputs, size, amap, panicked>>

\* A client of bst that inserts, deletes and traverses from the root or from
\* a node of the tree.
NextTraverseRoot ==
  \/ \E p \in inputs : BstInsertOp(p[1], p[2])
  \/ \E n \in Ptrs : BstDeleteOp(n)
  \/ \E accept \in SUBSET (InTree(tree) \cup {Sentinel}) : BstTraverseRootOp(accept)
  \/ \E n \in Nodes : \E accept \in SUBSET InTree(tree) : BstTraverseOp(n, accept)

SpecTraverseRoot == InitBst /\ [][NextTraverseRoot]_vars

\* C40: TraverseInOrder never passes the sentinel to f: started at the root
\* of an empty tree it returns true without calling f, and started at a
\* node it calls f on nodes of the tree only.
BstTraverseSkipsSentinel ==
  (layer = "bst" /\ last.op = "traverse") =>
     /\ \A i \in 1..Len(last.seq) : last.seq[i] \in InTree(tree)
     /\ last.arg = Sentinel => (last.flag /\ last.seq = <<>>)
====
